---- MODULE Spec2Model ----
(***************************************************************************)
(* Raster-mask to vector-geometry pipeline of the building-footprint       *)
(* notebook (src/unnamed/part_000): buildings_as_vectors,                  *)
(* buildings_as_vectors_with_simplification, buildings_as_vectors_proc,    *)
(* filter_and_simplify_footprints and save_as_shapefile.                   *)
(*                                                                         *)
(* Points are <<x, y>> = <<col, row>>.  A ring is a closed sequence of     *)
(* points (first = last).  Pixel <<c, r>> covers the unit square with      *)
(* corners <<c, r>> and <<c+1, r+1>>.                                      *)
(***************************************************************************)
EXTENDS Integers, Sequences, FiniteSets, TLC

\* ------------------------------------------------------------------ bounds
\* Width and height of the enumerated rasters.
W == 2
H == 2
\* The number of calls of save_as_shapefile on one returned sequence.
MaxSaves == 2
\* The number of rasters run through the pipeline one after the other.
MaxRuns == 2
\* The number of pages the items endpoint of the API holds.
MaxPages == 2
\* The longest list of items that is categorized.
MaxItems == 3
\* The changes of the date slider that are followed.
MaxEvents == 2
\* The longest list of results handed to download_results, and the calls
\* of download_results that are followed.
MaxResults == 2
MaxCalls == 2
\* The rows of the quads dataframe.
MaxQuadRows == 2

\* --------------------------------------------------------- program constants
\* building_mask = buildings == 255
mask_value == 255
\* min_pixel_size = 6
min_pixel_size == 6
\* tolerance = 1
tolerance == 1
\* INTERVALS: int = 36
INTERVALS == 36
\* assert resp.status_code == 302
redirect_status == 302

\* ------------------------------------------------------------------ helpers
Abs(x) == IF x < 0 THEN -x ELSE x

Range(s) == {s[i] : i \in 1..Len(s)}

RECURSIVE SumSeq(_)
SumSeq(s) == IF s = <<>> THEN 0 ELSE Head(s) + SumSeq(Tail(s))

Cells(w, h) == (0..(w - 1)) \X (0..(h - 1))

\* Row-major position of a pixel (rows first, then columns).
RowMajor(p) == p[2] * 1000 + p[1]

\* The element of a non-empty set of pixels that comes first in row-major order.
FirstPixel(S) == CHOOSE p \in S : \A q \in S : RowMajor(p) <= RowMajor(q)

\* ------------------------------------------------- rasterio.features.shapes
\* Variant of the connectivity: diagonal neighbours count too.
Neighbours8(p) ==
    {<<p[1] + dx, p[2] + dy>> : dx \in {-1, 0, 1}, dy \in {-1, 0, 1}} \ {p}

\* 4-connectivity is rasterio's default (connectivity=4).
Neighbours4(p) ==
    {<<p[1] + 1, p[2]>>, <<p[1] - 1, p[2]>>, <<p[1], p[2] + 1>>, <<p[1], p[2] - 1>>}

\* Pixels of `region` reachable from `frontier` through equal-valued neighbours.
RECURSIVE Flood(_, _, _)
Flood(seen, frontier, region) ==
    IF frontier = {} THEN seen
    ELSE LET next == {q \in region \ seen : \E p \in frontier : q \in Neighbours4(p)}
         IN  Flood(seen \cup next, next, region)

\* The maximal connected region of equal-valued, unmasked pixels around p.
RegionOf(p, image, mask) ==
    LET same == {q \in DOMAIN image : mask[q] /\ image[q] = image[p]}
    IN  Flood({p}, {p}, same)

Regions(image, mask) ==
    {RegionOf(p, image, mask) : p \in {q \in DOMAIN image : mask[q]}}

\* Boundary edges of a region, one per pixel side that faces a pixel outside
\* the region, directed so that the region lies on the left of the direction
\* of travel in image coordinates (down the left side, right along the
\* bottom, up the right side, left along the top).
Edges(region) ==
    UNION {
      {e \in { [from |-> <<p[1], p[2]>>,         to |-> <<p[1], p[2] + 1>>,     pix |-> p, out |-> <<p[1] - 1, p[2]>>],
               [from |-> <<p[1], p[2] + 1>>,     to |-> <<p[1] + 1, p[2] + 1>>, pix |-> p, out |-> <<p[1], p[2] + 1>>],
               [from |-> <<p[1] + 1, p[2] + 1>>, to |-> <<p[1] + 1, p[2]>>,     pix |-> p, out |-> <<p[1] + 1, p[2]>>],
               [from |-> <<p[1] + 1, p[2]>>,     to |-> <<p[1], p[2]>>,         pix |-> p, out |-> <<p[1], p[2] - 1>>] }
          : e.out \notin region}
      : p \in region }

\* The edge that follows e on its ring: at a vertex where two rings touch the
\* ring stays with the pixel it is running around (4-connectivity).
NextEdge(e, edges) ==
    LET cand == {f \in edges : f.from = e.to}
    IN  IF \E f \in cand : f.pix = e.pix
        THEN CHOOSE f \in cand : f.pix = e.pix
        ELSE CHOOSE f \in cand : TRUE

RECURSIVE TraceFrom(_, _, _, _)
TraceFrom(e, e0, edges, acc) ==
    LET n == NextEdge(e, edges)
    IN  IF n = e0 THEN Append(acc, e)
        ELSE TraceFrom(n, e0, edges, Append(acc, e))

Dir(e) == <<e.to[1] - e.from[1], e.to[2] - e.from[2]>>

\* Rank of an edge for choosing where a ring starts: its start point in
\* row-major order, then the downward edge first.
EdgeRank(e) == RowMajor(e.from) * 10 + (IF Dir(e) = <<0, 1>> THEN 0 ELSE 1 + Dir(e)[1] + 2 * (Dir(e)[2] + 1))

\* Variant of the ring: every pixel corner on the boundary is a vertex.
RingOfCycle_unmerged(cyc) ==
    Append([k \in 1..Len(cyc) |-> cyc[k].from], cyc[1].from)

\* The closed ring of a cycle of edges: the start points of the edges at
\* which the direction changes (collinear points are merged), starting at
\* the cycle's first corner, closed by repeating the first point.
RingOfCycle(cyc) ==
    LET n     == Len(cyc)
        prev(i) == cyc[IF i = 1 THEN n ELSE i - 1]
        turns == SelectSeq([i \in 1..n |-> i], LAMBDA i : Dir(prev(i)) # Dir(cyc[i]))
        pts   == [k \in 1..Len(turns) |-> cyc[turns[k]].from]
    IN  Append(pts, pts[1])

RECURSIVE CyclesOf(_, _)
CyclesOf(left, edges) ==
    IF left = {} THEN <<>>
    ELSE LET e0  == CHOOSE e \in left : \A f \in left : EdgeRank(e) <= EdgeRank(f)
             cyc == TraceFrom(e0, e0, edges, <<>>)
         IN  <<cyc>> \o CyclesOf(left \ Range(cyc), edges)

\* Rings of a region in pixel coordinates: the exterior ring first (it holds
\* the region's first corner in row-major order), then the holes.
PixelRings(region) ==
    LET edges == Edges(region)
        cycs  == CyclesOf(edges, edges)
    IN  [k \in 1..Len(cycs) |-> RingOfCycle(cycs[k])]

\* ----------------------------------------------------------- affine maps
\* rasterio's Affine (a, b, c, d, e, f) applied to a point:
\* (x, y) -> (a*x + b*y + c, d*x + e*y + f).
AffineMul(t, p) == <<t[1] * p[1] + t[2] * p[2] + t[3], t[4] * p[1] + t[5] * p[2] + t[6]>>

\* transform=IDENTITY, the default of rasterio.features.shapes.
IDENTITY == <<1, 0, 0, 0, 1, 0>>

\* shapely.affinity.affine_transform(geom, [a, b, d, e, xoff, yoff]) on a
\* point: (x, y) -> (a*x + b*y + xoff, d*x + e*y + yoff).
ShapelyAffinePoint(m, p) == <<m[1] * p[1] + m[2] * p[2] + m[5], m[3] * p[1] + m[4] * p[2] + m[6]>>

AffineRing(t, ring) == [i \in 1..Len(ring) |-> AffineMul(t, ring[i])]

ShapelyAffineRing(m, ring) == [i \in 1..Len(ring) |-> ShapelyAffinePoint(m, ring[i])]

\* One (geometry, value) pair of rasterio.features.shapes: a GeoJSON-like
\* polygon whose rings are the region's pixel rings mapped through
\* `transform`, and the region's pixel value.  `region` records the pixels
\* the polygon was traced from.
ShapeOf(region, image, transform) ==
    LET rings == PixelRings(region)
    IN  [ s      |-> [type |-> "Polygon",
                      coordinates |-> [k \in 1..Len(rings) |->
                                         AffineRing(transform, rings[k])]],
          v      |-> image[FirstPixel(region)],
          region |-> region ]

\* The regions in row-major order of their first pixel.
RECURSIVE RegionSeq(_)
RegionSeq(rs) ==
    IF rs = {} THEN <<>>
    ELSE LET r == CHOOSE x \in rs :
                    \A y \in rs : RowMajor(FirstPixel(x)) <= RowMajor(FirstPixel(y))
         IN  <<r>> \o RegionSeq(rs \ {r})

Reverse(s) == [i \in 1..Len(s) |-> s[Len(s) + 1 - i]]

\* The traversal orders the vectorization routine may use.
ScanOrders == {"forward", "backward"}

\* Variant of the vectorization: the mask is ignored (mask=None), every
\* region of equal-valued pixels is emitted.
shapes_unmasked(image, mask, transform) ==
    LET all == [p \in DOMAIN image |-> TRUE]
        seq == RegionSeq(Regions(image, all))
    IN  [k \in 1..Len(seq) |-> ShapeOf(seq[k], image, transform)]

\* rfeatures.shapes(image, mask=mask, transform=transform): one pair per
\* maximal connected region of unmasked equal-valued pixels, here in
\* row-major order of the regions' first pixels.
shapes(image, mask, transform) ==
    LET seq == RegionSeq(Regions(image, mask))
    IN  [k \in 1..Len(seq) |-> ShapeOf(seq[k], image, transform)]

\* ------------------------------------------------------------------ shapely
\* shapely.geometry.shape(g): GeoJSON-like mapping -> Polygon.
sshape(g) ==
    IF g.coordinates = <<>>
    THEN [exterior |-> <<>>, interiors |-> <<>>]
    ELSE [exterior |-> Head(g.coordinates), interiors |-> Tail(g.coordinates)]

\* shapely.geometry.mapping(s): Polygon -> GeoJSON-like mapping.
mapping(s) ==
    [type |-> "Polygon",
     coordinates |-> IF s.exterior = <<>> THEN <<>> ELSE <<s.exterior>> \o s.interiors]

\* Twice the signed area of a closed ring (shoelace formula).
Shoelace2(ring) ==
    SumSeq([i \in 1..(Len(ring) - 1) |->
              ring[i][1] * ring[i + 1][2] - ring[i + 1][1] * ring[i][2]])

\* Variant of the area: the signed area of the rings as they are wound.
area2_signed(s) ==
    IF s.exterior = <<>> THEN 0
    ELSE Shoelace2(s.exterior)
         - SumSeq([k \in 1..Len(s.interiors) |-> Shoelace2(s.interiors[k])])

\* Twice Polygon.area: the exterior's area minus the holes' areas.
area2(s) ==
    IF s.exterior = <<>> THEN 0
    ELSE Abs(Shoelace2(s.exterior))
         - SumSeq([k \in 1..Len(s.interiors) |-> Abs(Shoelace2(s.interiors[k]))])

Dist2(p, q) == (p[1] - q[1]) * (p[1] - q[1]) + (p[2] - q[2]) * (p[2] - q[2])

\* Squared distance of p to the segment a-b as a fraction <<num, den>>.
SegDist2(p, a, b) ==
    LET len2  == Dist2(a, b)
        dot   == (p[1] - a[1]) * (b[1] - a[1]) + (p[2] - a[2]) * (b[2] - a[2])
        cross == (a[2] - p[2]) * (b[1] - a[1]) - (a[1] - p[1]) * (b[2] - a[2])
    IN  IF len2 = 0 THEN <<Dist2(p, a), 1>>
        ELSE IF dot <= 0 THEN <<Dist2(p, a) * len2, len2>>
        ELSE IF dot >= len2 THEN <<Dist2(p, b) * len2, len2>>
        ELSE <<cross * cross, len2>>

\* Douglas-Peucker: the indices strictly between i and j that are kept.
RECURSIVE SimplifySection(_, _, _, _)
SimplifySection(pts, i, j, tol) ==
    IF i + 1 >= j THEN {}
    ELSE LET num(k) == SegDist2(pts[k], pts[i], pts[j])[1]
             den    == SegDist2(pts[i + 1], pts[i], pts[j])[2]
             m      == CHOOSE k \in (i + 1)..(j - 1) :
                         /\ \A l \in (i + 1)..(j - 1) : num(l) <= num(k)
                         /\ \A l \in (i + 1)..(k - 1) : num(l) < num(k)
         IN  IF num(m) <= tol * tol * den THEN {}
             ELSE SimplifySection(pts, i, m, tol) \cup {m} \cup SimplifySection(pts, m, j, tol)

SimplifyRing(ring, tol) ==
    IF Len(ring) < 2 THEN ring
    ELSE LET keep == {1, Len(ring)} \cup SimplifySection(ring, 1, Len(ring), tol)
         IN  SelectSeq([i \in 1..Len(ring) |-> i], LAMBDA i : i \in keep)

SimplifiedRing(ring, tol) ==
    LET idx == SimplifyRing(ring, tol) IN [k \in 1..Len(idx) |-> ring[idx[k]]]

\* s.simplify(tol, preserve_topology=False): every ring is reduced by
\* Douglas-Peucker; a ring left with fewer than 4 points is no ring any more
\* and is removed (an exterior so removed leaves the empty polygon).
simplify(s, tol) ==
    IF s.exterior = <<>> THEN s
    ELSE LET ext   == SimplifiedRing(s.exterior, tol)
             holes == [k \in 1..Len(s.interiors) |-> SimplifiedRing(s.interiors[k], tol)]
         IN  IF Len(ext) < 4 THEN [exterior |-> <<>>, interiors |-> <<>>]
             ELSE [exterior |-> ext,
                   interiors |-> SelectSeq(holes, LAMBDA r : Len(r) >= 4)]

\* Variant of the projection: the interior rings stay in pixel space.
affine_transform_exterior_only(s, m) ==
    [exterior  |-> ShapelyAffineRing(m, s.exterior),
     interiors |-> s.interiors]

\* shapely.affinity.affine_transform(s, m) with m = [a, b, d, e, xoff, yoff].
affine_transform(s, m) ==
    [exterior  |-> ShapelyAffineRing(m, s.exterior),
     interiors |-> [k \in 1..Len(s.interiors) |->
                      ShapelyAffineRing(m, s.interiors[k])]]


\* -------------------------------------------------------------------- inputs
\* A raster file: a single band of pixel values with its affine transform
\* (a, b, c, d, e, f) and its CRS.
Band(w, h, fg, other) ==
    [p \in Cells(w, h) |-> IF p \in fg THEN mask_value
                           ELSE IF p \in DOMAIN other THEN other[p] ELSE 0]

NoOther == [p \in {} |-> 0]

\* Every W x H band of building (255) and non-building (0) pixels.
BinaryBands == {Band(W, H, fg, NoOther) : fg \in SUBSET Cells(W, H)}

\* Scenario A of the specification: a 4 x 4 band whose only building pixels
\* are the 2 x 2 block at rows 1-2, cols 1-2.
ScenarioA == Band(4, 4, {<<1, 1>>, <<2, 1>>, <<1, 2>>, <<2, 2>>}, NoOther)

\* Bands holding pixel values other than 0 and 255.
MixedBands ==
    { Band(3, 2, {<<0, 0>>, <<2, 1>>}, (<<1, 0>> :> 1) @@ (<<2, 0>> :> 254)),
      Band(3, 2, {}, (<<0, 0>> :> 1) @@ (<<1, 0>> :> 1) @@ (<<1, 1>> :> 254)) }

\* A 6 x 5 band with four footprints: a 3 x 2 block (6 pixels), a 5-pixel
\* footprint, a 7-pixel footprint and a single pixel, none touching another.
Footprints ==
    Band(6, 5,
         {<<0, 0>>, <<1, 0>>, <<2, 0>>, <<0, 1>>, <<1, 1>>, <<2, 1>>}
           \cup {<<4, 0>>, <<5, 0>>, <<4, 1>>, <<5, 1>>, <<4, 2>>}
           \cup {<<0, 3>>, <<1, 3>>, <<2, 3>>, <<0, 4>>, <<1, 4>>, <<2, 4>>, <<3, 4>>}
           \cup {<<5, 3>>},
         NoOther)

\* A 3 x 3 band whose building pixels enclose one non-building pixel.
Courtyard == Band(3, 3, Cells(3, 3) \ {<<1, 1>>}, NoOther)

\* Scenario C of the specification: two disjoint blocks, of 2 and 4 pixels.
ScenarioC ==
    Band(4, 2, {<<0, 0>>, <<0, 1>>} \cup {<<2, 0>>, <<3, 0>>, <<2, 1>>, <<3, 1>>}, NoOther)

\* A 6 x 1 band of building pixels only.
Strip == Band(6, 1, Cells(6, 1), NoOther)

Bands == BinaryBands \cup {ScenarioA, ScenarioC, Footprints, Courtyard, Strip} \cup MixedBands

ScenarioD == <<2, 0, 100, 0, -2, 200>>
Sheared   == <<1, 2, 3, 4, 5, 6>>

Georefs ==
    { [transform |-> IDENTITY,  crs |-> "EPSG:3857"],
      [transform |-> ScenarioD, crs |-> "EPSG:32637"],
      [transform |-> Sheared,   crs |-> "EPSG:4326"] }

\* A file has one band (dataset.count = 1) or, for one file, none at all;
\* one file cannot be opened.
NoBand == [p \in {} |-> 0]

Files ==
    {[readable |-> TRUE, count |-> 1, band |-> b, transform |-> gr.transform, crs |-> gr.crs] :
        b \in Bands, gr \in Georefs}
      \cup {[readable |-> TRUE, count |-> 0, band |-> NoBand,
              transform |-> IDENTITY, crs |-> "EPSG:3857"],
             [readable |-> FALSE, count |-> 0, band |-> NoBand,
              transform |-> IDENTITY, crs |-> "EPSG:3857"]}

Variants ==
    {"buildings_as_vectors", "buildings_as_vectors_with_simplification",
     "buildings_as_vectors_proc"}

\* The functions that open the raster: the three above and _open.
Loaders == Variants \cup {"_open"}

\* The processing function of the notebook, by its two locals.
filter_and_simplify_footprints ==
    [min_pixel_size |-> min_pixel_size, tolerance |-> tolerance]

\* Processing functions that buildings_as_vectors_proc can be handed:
\* filter_and_simplify_footprints and copies of it with other values of its
\* two locals (no filtering, a smaller threshold, negative values).
ProcFcns ==
    { filter_and_simplify_footprints,
      [min_pixel_size |-> 0,  tolerance |-> tolerance],
      [min_pixel_size |-> 5,  tolerance |-> 0],
      [min_pixel_size |-> -1, tolerance |-> tolerance],
      [min_pixel_size |-> min_pixel_size, tolerance |-> -1] }

\* A processing function that hands its generator back as it is
\* (lambda footprints: footprints): it chains no generator of its own.
identity == [generators |-> <<>>]

None == "None"

\* --------------------------------------------------------------------- state
VARIABLES
    file,             \* the raster file that `filename` names
    fn,               \* which of the three vectorization functions is run
    pc,               \* position of the run
    dataset,          \* "unopened", "open" or "closed"
    buildings,        \* dataset.read(1)
    building_mask,    \* buildings == 255
    building_shapes,  \* the generator returned by rfeatures.shapes
    d,                \* dataset.transform as read inside the with block
    crs,              \* dataset.crs as read inside the with block
    g,                \* the geometry travelling through the generator chain
    c,                \* the records of the output file (none before it is written)
    count,            \* save_as_shapefile's counter
    stdout,           \* what print() has printed
    log,              \* the stage events so far, <<stage, index>>
    proc_fcn,         \* the processing function handed to buildings_as_vectors_proc
    data,             \* _open's dataset.read(...)
    c_crs,            \* the crs the fiona collection was opened with
    result,           \* what save_as_shapefile returned
    io                \* the operations attempted on the raster file, in order

footprint_vars ==
    <<file, fn, pc, dataset, buildings, building_mask, building_shapes,
      d, crs, g, c, count, stdout, log, proc_fcn, data, c_crs, result, io>>

\* get_items_from_feed (case_study_syria_idp_camps.ipynb).
VARIABLES
    pages,            \* what the API answers: page id -> [features, links]
    feed_pc,          \* position in get_items_from_feed
    url,              \* the url (page id) last computed
    feed_result,      \* `result`: the page last fetched
    items,            \* the list of items
    fetched,          \* the urls requested with planet.get, in order
    feed_returned     \* what get_items_from_feed returned

feed_vars == <<pages, feed_pc, url, feed_result, items, fetched, feed_returned>>

\* The heatmap cell (case_study_syria_idp_camps.ipynb); it reads `items`.
VARIABLES
    heat_pc,          \* position in the heatmap cell
    BOUNDS,           \* the projected bounds (min x, max x, min y, max y)
    x_bins,           \* the midpoints of the bins along x
    y_bins,           \* the midpoints of the bins along y
    binned,           \* the list of categorized items
    hist,             \* the aggregated frame, then the grid
    f_pos             \* how many items the for loop has taken

heat_vars == <<heat_pc, BOUNDS, x_bins, y_bins, binned, hist, f_pos>>

\* The date slider cell (case_study_syria_idp_camps.ipynb).
VARIABLES
    tiles,            \* the tiles dataframe: rows sorted by date
    slider_pc,        \* position in the date slider cell
    date_slider,      \* date_slider.value
    current_date,
    source_layer,
    roads_layer,
    buildings_layer,
    m,                \* the layers added to the map m, in order
    handled           \* the values display_tiles has been called for, in order

slider_vars == <<tiles, slider_pc, date_slider, current_date, source_layer,
                 roads_layer, buildings_layer, m, handled>>

\* download_results (Psscene.ipynb).
VARIABLES
    data_dir,         \* the files under data/: name -> file
    results,          \* the results handed to download_results
    overwrite,
    dl_pc,            \* position in download_results
    dl_pos,           \* how many (url, name) pairs the loop has taken
    requested,        \* the requests.get calls made: [call, url], in order
    calls,            \* the calls of download_results so far
    data_before       \* the files under data/ when the current call began

download_vars == <<data_dir, results, overwrite, dl_pc, dl_pos, requested, calls,
                   data_before>>

\* The pixel-count cell (case_study_syria_idp_camps.ipynb); it reads `times`.
VARIABLES
    quads,            \* the quads dataframe: rows sorted by date
    responses,        \* what the API answers: quad url -> response
    rasters,          \* the window read from the raster at a download url
    px_pc,            \* position in the pixel-count cell
    time_pos,         \* how many times the outer loop has taken
    row_pos,          \* how many rows of the time the inner loop has taken
    building_pixels,
    roads_pixels,
    pixel_counts,
    quad_requests,    \* the quad urls requested by get_download_url, in order
    opened            \* the urls handed to rasterio.open, in order

pixel_vars == <<quads, responses, rasters, px_pc, time_pos, row_pos, building_pixels,
                roads_pixels, pixel_counts, quad_requests, opened>>

\* The variables of the other notebooks' programs.
other_vars == <<feed_vars, heat_vars, slider_vars, download_vars, pixel_vars>>

\* What the pixel-count cell leaves alone.
pixel_frame == <<footprint_vars, feed_vars, heat_vars, slider_vars, download_vars>>

\* What get_items_from_feed leaves alone.
feed_frame == <<footprint_vars, heat_vars, slider_vars, download_vars, pixel_vars>>

\* What the heatmap cell leaves alone.
heat_frame == <<footprint_vars, feed_vars, slider_vars, download_vars, pixel_vars>>

\* What the date slider cell leaves alone.
slider_frame == <<footprint_vars, feed_vars, heat_vars, download_vars, pixel_vars>>

\* What download_results leaves alone.
download_frame == <<footprint_vars, feed_vars, heat_vars, slider_vars, pixel_vars>>

vars == <<footprint_vars, other_vars>>

\* A name that holds no object yet.
Unbound == [unbound |-> TRUE]

FeedIdle ==
    /\ pages = None
    /\ feed_pc = "idle"
    /\ url = None
    /\ feed_result = Unbound
    /\ items = <<>>
    /\ fetched = <<>>
    /\ feed_returned = Unbound

HeatIdle ==
    /\ heat_pc = "idle"
    /\ BOUNDS = <<>>
    /\ x_bins = <<>>
    /\ y_bins = <<>>
    /\ binned = <<>>
    /\ hist = Unbound
    /\ f_pos = 0

SliderIdle ==
    /\ tiles = <<>>
    /\ slider_pc = "idle"
    /\ date_slider = None
    /\ current_date = None
    /\ source_layer = Unbound
    /\ roads_layer = Unbound
    /\ buildings_layer = Unbound
    /\ m = <<>>
    /\ handled = <<>>

DownloadIdle ==
    /\ data_dir = <<>>
    /\ results = <<>>
    /\ overwrite = FALSE
    /\ dl_pc = "idle"
    /\ dl_pos = 0
    /\ requested = <<>>
    /\ calls = 0
    /\ data_before = <<>>

PixelIdle ==
    /\ quads = <<>>
    /\ responses = <<>>
    /\ rasters = <<>>
    /\ px_pc = "idle"
    /\ time_pos = 0
    /\ row_pos = 0
    /\ building_pixels = 0
    /\ roads_pixels = 0
    /\ pixel_counts = <<>>
    /\ quad_requests = <<>>
    /\ opened = <<>>

\* The other notebooks' programs are not running.
OthersIdle == FeedIdle /\ HeatIdle /\ SliderIdle /\ DownloadIdle /\ PixelIdle

\* The raster-to-vector functions are not running.
FootprintIdle ==
    /\ file = None /\ fn = None /\ pc = "idle" /\ dataset = "unopened"
    /\ buildings = None /\ building_mask = None /\ building_shapes = None
    /\ d = None /\ crs = None /\ g = None /\ c = <<>> /\ count = None
    /\ stdout = <<>> /\ log = <<>> /\ proc_fcn = None /\ data = None
    /\ c_crs = None /\ result = None /\ io = <<>>

\* ---------------------------------------------------------- code expressions
\* Variant of the mask: nothing is masked.
MaskAll(image) == [p \in DOMAIN image |-> TRUE]

\* Variant of the mask: every non-zero pixel counts as a building pixel.
MaskNonZero(image) == [p \in DOMAIN image |-> image[p] # 0]

\* building_mask = buildings == 255
MaskNonBuilding(image) == [p \in DOMAIN image |-> image[p] = mask_value]

\* Variants of the coefficient reordering: none at all, and one with the
\* two offsets exchanged.
shapely_transform_unordered(t) == <<t[1], t[2], t[3], t[4], t[5], t[6]>>

shapely_transform_offsets_swapped(t) == <<t[1], t[2], t[4], t[5], t[6], t[3]>>

\* shapely_transform = [d[0], d[1], d[3], d[4], d[2], d[5]]
shapely_transform(t) == <<t[1], t[2], t[4], t[5], t[3], t[6]>>

\* Variant of the area test: strictly greater than the threshold.
AreaFilter_strict(s) == area2(s) > 2 * proc_fcn.min_pixel_size

\* s.area >= min_pixel_size, with the min_pixel_size of the processing
\* function in use (6 in filter_and_simplify_footprints).
AreaFilter(s) == area2(s) >= 2 * proc_fcn.min_pixel_size

\* The tolerance of the simplification: the local of
\* buildings_as_vectors_with_simplification, or that of the processing function.
Tolerance ==
    IF fn = "buildings_as_vectors_proc" THEN proc_fcn.tolerance ELSE tolerance

\* Variant: every function hands dataset.transform to the vectorization.
ShapesTransform_always(f, t) == t

\* The transform handed to rfeatures.shapes: dataset.transform in
\* buildings_as_vectors, none (the identity default) in the other two.
ShapesTransform(f, t) == IF f = "buildings_as_vectors" THEN t ELSE IDENTITY

\* Variant of the chain: the projection comes before the processing function.
Stages_project_first(f) ==
    IF f = "buildings_as_vectors" THEN <<"write">>
    ELSE IF f = "buildings_as_vectors_with_simplification"
    THEN <<"project", "simplify", "mapping", "write">>
    ELSE IF proc_fcn = identity THEN <<"project", "mapping", "write">>
    ELSE <<"project", "filter", "simplify", "mapping", "write">>

\* The generators chained behind the extractor, in the order a geometry
\* passes them, ending at the write in save_as_shapefile.
Stages(f) ==
    IF f = "buildings_as_vectors" THEN <<"write">>
    ELSE IF f = "buildings_as_vectors_with_simplification"
    THEN <<"simplify", "project", "mapping", "write">>
    ELSE IF proc_fcn = identity THEN <<"project", "mapping", "write">>
    ELSE <<"filter", "simplify", "project", "mapping", "write">>

StageAfter(f, stage) ==
    LET st == Stages(f)
        i  == CHOOSE k \in 1..Len(st) : st[k] = stage
    IN  st[i + 1]

\* Variant of a failure: the call is made again.
on_error_retry(at, error) == "call"

\* An exception of rasterio.open or dataset.read is caught nowhere: it
\* ends the call at the failing statement.
on_error(at, error) == error

\* Variant of leaving the with block: the dataset stays as it is.
with_exit_leaking(status) == status

\* Leaving `with rasterio.open(filename) as dataset`, by the return or by
\* an exception, closes the dataset.
with_exit(status) == "closed"

\* Variant of the CRS: a fixed one, whatever the raster says.
dataset_crs_fixed(f) == "EPSG:4326"

\* crs = dataset.crs
dataset_crs(f) == f.crs

\* d = dataset.transform
dataset_transform(f) == f.transform

\* Variant of the generator: a pull moves it on by two pairs.
Advance_skipping(gen) == [gen EXCEPT !.pos = @ + 2]

\* (s for s, _ in building_shapes): one pull takes the next pair from the
\* generator of rfeatures.shapes and moves it on by one.
Advance(gen) == [gen EXCEPT !.pos = @ + 1]

\* Variant of the loop's iterator: iterating again starts from the first pair.
iter_restarting(gen) == [gen EXCEPT !.pos = 0]

\* for g in geometries: iter() of a generator is the generator itself, at
\* the position it has reached.
iter(gen) == gen

\* Variant of the collection: opened for appending, it keeps the records
\* that the file holds.
fiona_open_a(records) == records

\* fiona.open(output_filename, mode='w', ...): the file is created anew,
\* without records.
fiona_open(records) == <<>>

\* Variant of the counter: it is left as it is.
count_unchanged(n) == n

\* count += 1
count_increment(n) == n + 1

\* Variants of the write: the record goes to the front, or is written twice.
c_write_prepend(records, rec) == <<rec>> \o records

c_write_twice(records, rec) == records \o <<rec, rec>>

\* c.write(record): the record is appended to the collection.
c_write(records, rec) == Append(records, rec)

\* -------------------------------------------------------------------- actions
\* The state before the call of one of the loading functions; fcns are
\* the processing functions buildings_as_vectors_proc may be handed.
Start(fcns) ==
    /\ file \in Files
    /\ fn \in Loaders
    /\ proc_fcn \in IF fn = "buildings_as_vectors_proc" THEN fcns ELSE {None}
    /\ data = None
    /\ c_crs = None
    /\ result = None
    /\ pc = "call"
    /\ dataset = "unopened"
    /\ buildings = None
    /\ building_mask = None
    /\ building_shapes = None
    /\ d = None
    /\ crs = None
    /\ g = None
    /\ c = <<>>
    /\ count = None
    /\ stdout = <<>>
    /\ log = <<>>
    /\ io = <<>>
    /\ OthersIdle

\* The notebook's calls: buildings_as_vectors_proc is handed
\* filter_and_simplify_footprints.
Init == Start({filter_and_simplify_footprints})

\* rasterio.open(filename) raises for a file that cannot be opened; no
\* dataset exists then, and the exception leaves the call.
OpenRaises ==
    /\ pc = "call"
    /\ ~file.readable
    /\ io' = Append(io, "open")
    /\ pc' = on_error(pc, "open_error")
    /\ UNCHANGED <<proc_fcn, data, c_crs, result, other_vars>>
    /\ UNCHANGED <<file, fn, dataset, buildings, building_mask, building_shapes, d, crs,
                   g, c, count, stdout, log>>

\* with rasterio.open(filename) as dataset:
Open ==
    /\ pc = "call"
    /\ file.readable
    /\ io' = Append(io, "open")
    /\ dataset' = "open"
    /\ pc' = "opened"
    /\ UNCHANGED <<proc_fcn, data, c_crs, result, other_vars>>
    /\ UNCHANGED <<file, fn, buildings, building_mask, building_shapes, d, crs,
                   g, c, count, stdout, log>>

\* The body of the with block: the band is read, the mask computed, the
\* generator chain set up (nothing is pulled yet), transform and CRS read.
Body(f) ==
    /\ pc = "opened"
    /\ fn = f
    /\ dataset = "open"
    /\ file.count >= 1
    /\ buildings' = file.band
    /\ building_mask' = MaskNonBuilding(file.band)
    /\ building_shapes' = [started   |-> FALSE,
                           transform |-> ShapesTransform(f, file.transform),
                           items     |-> <<>>,
                           pos       |-> 0]
    /\ d' = IF f = "buildings_as_vectors" THEN None ELSE dataset_transform(file)
    /\ crs' = dataset_crs(file)
    /\ io' = Append(io, "read")
    /\ pc' = "built"
    /\ UNCHANGED <<proc_fcn, data, c_crs, result, other_vars>>
    /\ UNCHANGED <<file, fn, dataset, g, c, count, stdout, log>>

buildings_as_vectors == Body("buildings_as_vectors")

buildings_as_vectors_with_simplification ==
    Body("buildings_as_vectors_with_simplification")

buildings_as_vectors_proc == Body("buildings_as_vectors_proc")

\* dataset.read(1) on a file without bands raises; the exception leaves
\* the with block, which closes the dataset, and the call.
ReadRaises ==
    /\ pc = "opened"
    /\ fn \in Variants
    /\ dataset = "open"
    /\ file.count = 0
    /\ io' = Append(io, "read")
    /\ dataset' = with_exit(dataset)
    /\ pc' = on_error(pc, "load_error")
    /\ UNCHANGED <<proc_fcn, data, c_crs, result, other_vars>>
    /\ UNCHANGED <<file, fn, buildings, building_mask, building_shapes, d, crs,
                   g, c, count, stdout, log>>

\* _open(filename, factor=1): every band is read at full size
\* (out_shape = (dataset.count, height, width)) inside the with block.
_open ==
    /\ pc = "opened"
    /\ fn = "_open"
    /\ dataset = "open"
    /\ data' = [count |-> file.count, bands |-> file.band]
    /\ io' = Append(io, "read")
    /\ pc' = "read"
    /\ UNCHANGED <<proc_fcn, c_crs, result, other_vars>>
    /\ UNCHANGED <<file, fn, dataset, buildings, building_mask, building_shapes,
                   d, crs, g, c, count, stdout, log>>

\* Leaving the with block closes the dataset; (building_geometries, crs),
\* or _open's data, is returned.
Return ==
    /\ pc \in {"built", "read"}
    /\ dataset' = with_exit(dataset)
    /\ pc' = IF pc = "built" THEN "returned" ELSE "open_returned"
    /\ UNCHANGED <<proc_fcn, data, c_crs, result, io, other_vars>>
    /\ UNCHANGED <<file, fn, buildings, building_mask, building_shapes, d, crs,
                   g, c, count, stdout, log>>

\* save_as_shapefile: fiona.open(..., mode='w', ...) and count = 0.
save_as_shapefile ==
    /\ pc = "returned"
    /\ c' = fiona_open(c)
    /\ c_crs' = crs
    /\ count' = 0
    /\ building_shapes' = iter(building_shapes)
    /\ pc' = "pull"
    /\ UNCHANGED <<proc_fcn, data, result, io, other_vars>>
    /\ UNCHANGED <<file, fn, dataset, buildings, building_mask, d, crs, g, stdout, log>>

\* The first next() on the chain starts the generator of rfeatures.shapes:
\* the vectorization runs over the whole band (read while the dataset was
\* open) and its (geometry, value) pairs are then handed out one by one.
Vectorize ==
    /\ pc = "pull"
    /\ ~building_shapes.started
    /\ LET fwd == shapes(buildings, building_mask, building_shapes.transform)
       IN  \E order \in ScanOrders :
             building_shapes' =
                 [building_shapes EXCEPT
                     !.started = TRUE,
                     !.items = IF order = "forward" THEN fwd ELSE Reverse(fwd)]
    /\ UNCHANGED <<proc_fcn, data, c_crs, result, io, other_vars>>
    /\ UNCHANGED <<file, fn, pc, dataset, buildings, building_mask, d, crs, g, c,
                   count, stdout, log>>

\* for g in geometries: the loop asks the chain for its next geometry, which
\* pulls the next (s, _) pair from building_shapes; the pair's geometry is
\* handed on (through sshape() in the two shapely variants).
Extract ==
    /\ pc = "pull"
    /\ building_shapes.started
    /\ building_shapes.pos < Len(building_shapes.items)
    /\ building_shapes' = Advance(building_shapes)
    /\ g' = LET item == building_shapes.items[building_shapes.pos + 1]
            IN  [idx   |-> building_shapes.pos + 1,
                 geom  |-> IF fn = "buildings_as_vectors" THEN item.s ELSE sshape(item.s),
                 pixel |-> None]
    /\ log' = Append(log, <<"extract", building_shapes.pos + 1>>)
    /\ pc' = Head(Stages(fn))
    /\ UNCHANGED <<proc_fcn, data, c_crs, result, io, other_vars>>
    /\ UNCHANGED <<file, fn, dataset, buildings, building_mask, d, crs, c, count,
                   stdout>>

\* geo_shapes = (s for s in footprints if s.area >= min_pixel_size)
Filter ==
    /\ pc = "filter"
    /\ log' = Append(log, <<"filter", g.idx>>)
    /\ IF AreaFilter(g.geom)
       THEN /\ pc' = StageAfter(fn, "filter")
            /\ g' = g
       ELSE /\ pc' = "pull"
            /\ g' = None
    /\ UNCHANGED <<proc_fcn, data, c_crs, result, io, other_vars>>
    /\ UNCHANGED <<file, fn, dataset, buildings, building_mask, building_shapes,
                   d, crs, c, count, stdout>>

\* geo_shapes = (s.simplify(tolerance, preserve_topology=False) for s in geo_shapes)
Simplify ==
    /\ pc = "simplify"
    /\ Tolerance >= 0
    /\ g' = [g EXCEPT !.geom = simplify(g.geom, Tolerance)]
    /\ log' = Append(log, <<"simplify", g.idx>>)
    /\ pc' = StageAfter(fn, "simplify")
    /\ UNCHANGED <<proc_fcn, data, c_crs, result, io, other_vars>>
    /\ UNCHANGED <<file, fn, dataset, buildings, building_mask, building_shapes,
                   d, crs, c, count, stdout>>

\* proj_shapes = (shapely.affinity.affine_transform(g, shapely_transform) ...)
Project ==
    /\ pc = "project"
    /\ g' = [g EXCEPT !.geom = affine_transform(g.geom, shapely_transform(d)),
                      !.pixel = g.geom]
    /\ log' = Append(log, <<"project", g.idx>>)
    /\ pc' = StageAfter(fn, "project")
    /\ UNCHANGED <<proc_fcn, data, c_crs, result, io, other_vars>>
    /\ UNCHANGED <<file, fn, dataset, buildings, building_mask, building_shapes,
                   d, crs, c, count, stdout>>

\* building_geometries = (shapely.geometry.mapping(s) for s in proj_shapes)
Mapping ==
    /\ pc = "mapping"
    /\ g' = [g EXCEPT !.geom = mapping(g.geom)]
    /\ log' = Append(log, <<"mapping", g.idx>>)
    /\ pc' = StageAfter(fn, "mapping")
    /\ UNCHANGED <<proc_fcn, data, c_crs, result, io, other_vars>>
    /\ UNCHANGED <<file, fn, dataset, buildings, building_mask, building_shapes,
                   d, crs, c, count, stdout>>

\* count += 1; c.write({'geometry': g, 'properties': {}})
Write ==
    /\ pc = "write"
    /\ count' = count_increment(count)
    /\ c' = c_write(c, [geometry |-> g.geom, idx |-> g.idx, pixel |-> g.pixel])
    /\ log' = Append(log, <<"write", g.idx>>)
    /\ g' = None
    /\ pc' = "pull"
    /\ UNCHANGED <<proc_fcn, data, c_crs, result, io, other_vars>>
    /\ UNCHANGED <<file, fn, dataset, buildings, building_mask, building_shapes,
                   d, crs, stdout>>

\* The chain is exhausted: the loop ends and the count is printed.
Finish ==
    /\ pc = "pull"
    /\ building_shapes.started
    /\ building_shapes.pos = Len(building_shapes.items)
    /\ stdout' = Append(stdout, count)
    /\ result' = [type |-> "NoneType"]
    /\ pc' = "done"
    /\ UNCHANGED <<proc_fcn, data, c_crs, io, other_vars>>
    /\ UNCHANGED <<file, fn, dataset, buildings, building_mask, building_shapes,
                   d, crs, g, c, count, log>>

Next ==
    \/ OpenRaises
    \/ Open
    \/ buildings_as_vectors
    \/ buildings_as_vectors_with_simplification
    \/ buildings_as_vectors_proc
    \/ ReadRaises
    \/ _open
    \/ Return
    \/ save_as_shapefile
    \/ Vectorize
    \/ Extract
    \/ Filter
    \/ Simplify
    \/ Project
    \/ Mapping
    \/ Write
    \/ Finish

Spec == Init /\ [][Next]_vars

\* A further call of save_as_shapefile with the geometries and crs that
\* the loading function returned, after an earlier call has finished: the
\* file is opened again in mode 'w' and the loop runs on the same generator.
save_as_shapefile_again ==
    /\ pc = "done"
    /\ Len(stdout) < MaxSaves
    /\ c' = fiona_open(c)
    /\ c_crs' = crs
    /\ count' = 0
    /\ building_shapes' = iter(building_shapes)
    /\ pc' = "pull"
    /\ UNCHANGED <<proc_fcn, data, result, io, other_vars>>
    /\ UNCHANGED <<file, fn, dataset, buildings, building_mask, d, crs, g, stdout, log>>

\* s.simplify(tolerance, preserve_topology=False) with a negative tolerance
\* raises in the geometry library. Nothing in the generator chain or in
\* save_as_shapefile catches it: it leaves the for loop and the with block
\* (the collection is closed with the records written so far) and the
\* call, before anything is printed.
SimplifyRaises ==
    /\ pc = "simplify"
    /\ Tolerance < 0
    /\ log' = Append(log, <<"raise", g.idx>>)
    /\ pc' = "aborted"
    /\ UNCHANGED <<proc_fcn, data, c_crs, result, io, other_vars>>
    /\ UNCHANGED <<file, fn, dataset, buildings, building_mask, building_shapes,
                   d, crs, g, c, count, stdout>>

\* buildings_as_vectors_proc handed any of the processing functions.
InitConfig == Start(ProcFcns)

NextConfig == Next \/ SimplifyRaises

SpecConfig == InitConfig /\ [][NextConfig]_vars

NextResave == Next \/ save_as_shapefile_again

\* buildings_as_vectors_proc handed the identity or the notebook's
\* processing function, next to the other loading functions.
InitIdentity == Start({identity, filter_and_simplify_footprints})

SpecIdentity == InitIdentity /\ [][Next]_vars

\* The rasters of the runs that follow one another, and the rasters that
\* a later run may be given.
RunFiles == {f \in Files : f.count = 0 \/ f.band \in {ScenarioC, Footprints, Strip}}

NextFiles ==
    {f \in RunFiles : \/ f.band = ScenarioC /\ f.transform = ScenarioD
                      \/ f.band = Footprints /\ f.transform = Sheared}

\* The same cells are run again with `filename` naming another raster:
\* the same function is called, then save_as_shapefile with the same
\* output_filename. Nothing is reset in between; each call binds its
\* locals anew as it runs.
NextRun ==
    /\ pc = "done"
    /\ Len(stdout) < MaxRuns
    /\ file' \in NextFiles
    /\ pc' = "call"
    /\ UNCHANGED <<proc_fcn, data, c_crs, result, io, other_vars>>
    /\ UNCHANGED <<fn, dataset, buildings, building_mask, building_shapes, d, crs,
                   g, c, count, stdout, log>>

InitRuns == Init /\ file \in RunFiles

NextRuns == Next \/ NextRun

SpecRuns == InitRuns /\ [][NextRuns]_vars

SpecResave == Init /\ [][NextResave]_vars


\* ------------------------------------------------------ get_items_from_feed
\* The url of page j of the items endpoint; the url that
\* get_items_from_feed builds first is that of page 1.
Url(j) == ToString(j)

Urls == {Url(j) : j \in 1..MaxPages}

\* Two features of the feed: a unit square and a 2 x 1 rectangle, as
\* GeoJSON polygons with one closed ring.
FeatureSquare ==
    [geometry |-> [type |-> "Polygon",
                   coordinates |-> << << <<0, 0>>, <<0, 1>>, <<1, 1>>, <<1, 0>>, <<0, 0>> >> >>]]

FeatureRectangle ==
    [geometry |-> [type |-> "Polygon",
                   coordinates |-> << << <<2, 2>>, <<4, 2>>, <<4, 3>>, <<2, 3>>, <<2, 2>> >> >>]]

FeatureLists == {<<>>, <<FeatureSquare>>, <<FeatureRectangle, FeatureSquare>>}

Link(rel, href) == [rel |-> rel, href |-> href]

\* The 'links' of a page: a self link, a self link and a next link, or two
\* next links.
LinkLists ==
    {<<Link("self", Url(1))>>}
        \cup {<<Link("self", Url(1)), Link("next", v)>> : v \in Urls}
        \cup {<<Link("next", v), Link("next", Url(1))>> : v \in Urls}

\* A page of the API's answer: a JSON object that may lack 'features' and
\* may lack 'links'.
PageObjects ==
    [features : FeatureLists, links : LinkLists]
        \cup {[features |-> <<FeatureSquare>>]}
        \cup {[links |-> <<Link("next", Url(1))>>]}

\* statistics.mean(xs), as the pair (sum, number of values).
mean(xs) == [sum |-> SumSeq(xs), n |-> Len(xs)]

\* The record appended for the feature f: the means of the ring's
\* longitudes and latitudes and the area of the shape (kept doubled).
ItemOf(f) ==
    LET coords == f.geometry.coordinates[1]
    IN  [lon  |-> mean([k \in 1..Len(coords) |-> coords[k][1]]),
         lat  |-> mean([k \in 1..Len(coords) |-> coords[k][2]]),
         area |-> area2(sshape(f.geometry))]

\* result.get('features', [])
get_features(page) == IF "features" \in DOMAIN page THEN page.features ELSE <<>>

\* Variant of get_next_url: the href of the first link, whatever its rel.
get_next_url_any(page) ==
    IF "links" \in DOMAIN page /\ page.links # <<>> THEN page.links[1].href ELSE None

\* get_next_url(result): the href of the first link with rel == 'next';
\* None without 'links' or without such a link.
get_next_url(page) ==
    IF "links" \in DOMAIN page
    THEN LET nexts == SelectSeq(page.links, LAMBDA link : link.rel = "next")
         IN  IF nexts = <<>> THEN None ELSE nexts[1].href
    ELSE None

\* The requests get_items_from_feed is followed for.
RequestCap == MaxPages + 2

InitFeed ==
    /\ FootprintIdle
    /\ HeatIdle
    /\ SliderIdle
    /\ DownloadIdle
    /\ PixelIdle
    /\ pages \in [Urls -> PageObjects]
    /\ feed_pc = "call"
    /\ url = None
    /\ feed_result = Unbound
    /\ items = <<>>
    /\ fetched = <<>>
    /\ feed_returned = Unbound

\* get_items_from_feed up to the loop: the first url is built and
\* requested, items = [].
get_items_from_feed ==
    /\ feed_pc = "call"
    /\ url' = Url(1)
    /\ fetched' = Append(fetched, Url(1))
    /\ feed_result' = pages[Url(1)]
    /\ items' = <<>>
    /\ feed_pc' = "loop"
    /\ UNCHANGED <<pages, feed_returned>>
    /\ UNCHANGED feed_frame

\* One pass of the while loop on a page with features: a record per feature
\* is appended; without a next url the items are returned, else the next
\* page is requested.
FeedPage ==
    /\ feed_pc = "loop"
    /\ Len(get_features(feed_result)) > 0
    /\ LET next  == get_next_url(feed_result)
           added == [k \in 1..Len(feed_result.features) |->
                        ItemOf(feed_result.features[k])]
       IN  /\ next # None => Len(fetched) < RequestCap
           /\ items' = items \o added
           /\ url' = next
           /\ IF next = None
              THEN /\ feed_returned' = [type |-> "list", value |-> items \o added]
                   /\ feed_pc' = "returned"
                   /\ UNCHANGED <<fetched, feed_result>>
              ELSE /\ fetched' = Append(fetched, next)
                   /\ feed_result' = pages[next]
                   /\ UNCHANGED <<feed_pc, feed_returned>>
    /\ UNCHANGED pages
    /\ UNCHANGED feed_frame

\* The loop condition fails on a page without features: the function
\* body ends without a return statement, so the call gives None.
FeedLoopEnds ==
    /\ feed_pc = "loop"
    /\ Len(get_features(feed_result)) = 0
    /\ feed_returned' = [type |-> "NoneType"]
    /\ feed_pc' = "returned"
    /\ UNCHANGED <<pages, url, feed_result, items, fetched>>
    /\ UNCHANGED feed_frame

NextFeed ==
    \/ get_items_from_feed
    \/ FeedPage
    \/ FeedLoopEnds

SpecFeed == InitFeed /\ [][NextFeed]_vars

\* The call runs on: a pass of the loop that can be made is made.
SpecFeedFair == SpecFeed /\ WF_vars(NextFeed)

\* --------------------------------------------------------- the heatmap cell
RECURSIVE GCD(_, _)
GCD(a, b) == IF b = 0 THEN a ELSE GCD(b, a % b)

\* Numbers of the cell are fractions num/den in lowest terms, den > 0.
Frac(num, den) ==
    LET common == GCD(Abs(num), den)
    IN  [num |-> num \div common, den |-> den \div common]

FracLess(a, b) == a.num * b.den < b.num * a.den

\* abs(a - b)
FracAbsDiff(a, b) == Frac(Abs(a.num * b.den - b.num * a.den), a.den * b.den)

\* transformer.transform(lon, lat), to the projected CRS: it stands for
\* the projection as a map that grows with each coordinate; lon and lat are
\* the means (sum, n) of an item.
transformer_transform(lon, lat) ==
    <<Frac(2 * lon.sum, lon.n), Frac(3 * lat.sum, lat.n)>>

\* np.linspace(start, stop, num, endpoint=False)
linspace(start, stop, num) ==
    [k \in 1..num |-> Frac(start * num + (k - 1) * (stop - start), num)]

\* (bins[1] - bins[0]) / 2
delta2(bins) ==
    Frac(bins[2].num * bins[1].den - bins[1].num * bins[2].den,
         2 * bins[1].den * bins[2].den)

\* bins + delta2, element by element.
shifted(bins, delta) ==
    [k \in 1..Len(bins) |->
        Frac(bins[k].num * delta.den + delta.num * bins[k].den,
             bins[k].den * delta.den)]

\* int(INTERVALS / aspect_ratio) with
\* aspect_ratio = (BOUNDS[1] - BOUNDS[0]) / (BOUNDS[3] - BOUNDS[2])
y_intervals(bounds) ==
    (INTERVALS * (bounds[4] - bounds[3])) \div (bounds[2] - bounds[1])

\* min(bins, key=(lambda x: abs(x - v))): the first of the elements with
\* the least key.
min_by_key(bins, v) ==
    LET key(k) == FracAbsDiff(bins[k], v)
    IN  bins[CHOOSE k \in 1..Len(bins) :
                /\ \A j \in 1..Len(bins) : ~FracLess(key(j), key(k))
                /\ \A j \in 1..(k - 1) : FracLess(key(k), key(j))]

\* Variant of the bounds test: the bounds themselves count as inside.
within_bounds_closed(bounds, fx, fy) ==
    /\ ~FracLess(fx, Frac(bounds[1], 1)) /\ ~FracLess(Frac(bounds[2], 1), fx)
    /\ ~FracLess(fy, Frac(bounds[3], 1)) /\ ~FracLess(Frac(bounds[4], 1), fy)

\* (BOUNDS[0] < fx < BOUNDS[1]) and (BOUNDS[2] < fy < BOUNDS[3])
within_bounds(bounds, fx, fy) ==
    /\ FracLess(Frac(bounds[1], 1), fx) /\ FracLess(fx, Frac(bounds[2], 1))
    /\ FracLess(Frac(bounds[3], 1), fy) /\ FracLess(fy, Frac(bounds[4], 1))

\* The items the API may have given: means over n coordinates and an area.
HeatItem(lonsum, latsum, n, area) ==
    [lon |-> [sum |-> lonsum, n |-> n], lat |-> [sum |-> latsum, n |-> n],
     area |-> area]

HeatItems ==
    { HeatItem(1, 1, 1, 2),  HeatItem(5, 1, 2, 4),  HeatItem(0, 1, 1, 8),
      HeatItem(3, 2, 1, 16), HeatItem(35, 1, 1, 32), HeatItem(1, 1, 2, 64) }

RECURSIVE SeqsUpTo(_, _)
SeqsUpTo(S, n) ==
    IF n = 0 THEN {<<>>}
    ELSE LET shorter == SeqsUpTo(S, n - 1)
         IN  shorter \cup {Append(q, x) : q \in shorter, x \in S}

\* The projected bounds of the area of interest.
BoundsChoices == {<<0, 72, 0, 4>>, <<-36, 36, -3, 3>>}

\* The state before the heatmap cell: `items` holds the list that
\* get_items_from_feed returned, BOUNDS the projected bounds.
InitHeatmap ==
    /\ FootprintIdle
    /\ SliderIdle
    /\ DownloadIdle
    /\ PixelIdle
    /\ pages = None
    /\ feed_pc = "returned"
    /\ url = None
    /\ feed_result = Unbound
    /\ items \in SeqsUpTo(HeatItems, MaxItems)
    /\ fetched = <<>>
    /\ feed_returned = [type |-> "list", value |-> items]
    /\ heat_pc = "config"
    /\ BOUNDS \in BoundsChoices
    /\ x_bins = <<>>
    /\ y_bins = <<>>
    /\ binned = <<>>
    /\ hist = Unbound
    /\ f_pos = 0

\* 1. Generate bins from bounds + intervals; binned = [].
GenerateBins ==
    /\ heat_pc = "config"
    /\ LET xs == linspace(BOUNDS[1], BOUNDS[2], INTERVALS)
           ys == linspace(BOUNDS[3], BOUNDS[4], y_intervals(BOUNDS))
       IN  /\ x_bins' = shifted(xs, delta2(xs))
           /\ y_bins' = shifted(ys, delta2(ys))
    /\ binned' = <<>>
    /\ f_pos' = 0
    /\ heat_pc' = "categorize"
    /\ UNCHANGED <<BOUNDS, hist>>
    /\ UNCHANGED heat_frame

\* 2. Categorize items in bins: one pass of `for f in items`.
Categorize ==
    /\ heat_pc = "categorize"
    /\ f_pos < Len(items)
    /\ LET f  == items[f_pos + 1]
           fp == transformer_transform(f.lon, f.lat)
       IN  binned' = IF within_bounds(BOUNDS, fp[1], fp[2])
                     THEN Append(binned, [x    |-> min_by_key(x_bins, fp[1]),
                                          y    |-> min_by_key(y_bins, fp[2]),
                                          area |-> f.area])
                     ELSE binned
    /\ f_pos' = f_pos + 1
    /\ UNCHANGED <<heat_pc, BOUNDS, x_bins, y_bins, hist>>
    /\ UNCHANGED heat_frame

\* The sum of the areas of the rows of binned with the given x and y.
RECURSIVE AreaSum(_, _, _)
AreaSum(rows, x, y) ==
    IF rows = <<>> THEN 0
    ELSE (IF Head(rows).x = x /\ Head(rows).y = y THEN Head(rows).area ELSE 0)
             + AreaSum(Tail(rows), x, y)

\* 3. Aggregate binned values: pd.DataFrame(binned).groupby(['x', 'y'])
\* .sum(); a frame made from an empty list has no columns x and y, and
\* groupby raises KeyError.
Aggregate ==
    /\ heat_pc = "categorize"
    /\ f_pos = Len(items)
    /\ IF binned = <<>>
       THEN /\ heat_pc' = "KeyError"
            /\ hist' = hist
       ELSE /\ heat_pc' = "aggregated"
            /\ hist' = [key \in {<<binned[k].x, binned[k].y>> : k \in 1..Len(binned)} |->
                           AreaSum(binned, key[1], key[2])]
    /\ UNCHANGED <<BOUNDS, x_bins, y_bins, binned, f_pos>>
    /\ UNCHANGED heat_frame

\* 4. Pivot into an xy grid and fill in empty cells with 0: rows are
\* the y midpoints, columns the x midpoints.
Pivot ==
    /\ heat_pc = "aggregated"
    /\ hist' = [cell \in Range(y_bins) \X Range(x_bins) |->
                   IF <<cell[2], cell[1]>> \in DOMAIN hist
                   THEN hist[<<cell[2], cell[1]>>] ELSE 0]
    /\ heat_pc' = "done"
    /\ UNCHANGED <<BOUNDS, x_bins, y_bins, binned, f_pos>>
    /\ UNCHANGED heat_frame

NextHeatmap ==
    \/ GenerateBins
    \/ Categorize
    \/ Aggregate
    \/ Pivot

SpecHeatmap == InitHeatmap /\ [][NextHeatmap]_vars

\* ------------------------------------------------------ the date slider cell
\* current_date = '2017-07-01'
InitialDate == "2017-07-01"

Dates == {"2017-04-01", InitialDate, "2017-10-01"}

\* A row of tiles: a date and the paths of its three tile sets; two rows
\* of a date differ in their paths (variant v).
TileRow(date, v) ==
    [date            |-> date,
     source_tiles    |-> <<"source_tiles", date, v>>,
     buildings_tiles |-> <<"buildings_tiles", date, v>>,
     roads_tiles     |-> <<"roads_tiles", date, v>>]

RowsOf(date) ==
    {<<>>, <<TileRow(date, 1)>>, <<TileRow(date, 1), TileRow(date, 2)>>,
     <<TileRow(date, 2), TileRow(date, 1)>>}

\* tiles, sorted by date, with at least one row of the initial date.
TileFrames ==
    {r1 \o r2 \o r3 : r1 \in RowsOf("2017-04-01"),
                      r2 \in RowsOf(InitialDate) \ {<<>>},
                      r3 \in RowsOf("2017-10-01")}

\* tiles['date'].unique(): the dates in order of first appearance.
RECURSIVE unique(_)
unique(rows) ==
    IF rows = <<>> THEN <<>>
    ELSE LET rest == unique(SubSeq(rows, 1, Len(rows) - 1))
             last == rows[Len(rows)].date
         IN  IF last \in Range(rest) THEN rest ELSE Append(rest, last)

times == unique(tiles)

\* tiles.loc[tiles['date'] == date, column].iloc[0]
tiles_loc(date, column) ==
    LET rows == SelectSeq(tiles, LAMBDA row : row.date = date)
    IN  rows[1][column]

\* LocalTileLayer(path=...): a new layer object; n tells the objects apart.
LocalTileLayer(path, n) == [path |-> path, object |-> n]

\* Variant of add_layer: the layer takes the place of the layers of the map.
add_layer_replacing(layers, layer) == <<layer>>

\* m.add_layer(layer)
add_layer(layers, layer) == Append(layers, layer)

InitSlider ==
    /\ FootprintIdle
    /\ FeedIdle
    /\ HeatIdle
    /\ DownloadIdle
    /\ PixelIdle
    /\ tiles \in TileFrames
    /\ slider_pc = "cell"
    /\ date_slider = None
    /\ current_date = None
    /\ source_layer = Unbound
    /\ roads_layer = Unbound
    /\ buildings_layer = Unbound
    /\ m = <<>>
    /\ handled = <<>>

\* The cell up to date_slider.observe(display_tiles, 'value'): a new map,
\* the slider on its first option, the layers of the initial date added.
SliderCell ==
    /\ slider_pc = "cell"
    /\ date_slider' = times[1]
    /\ current_date' = InitialDate
    /\ LET src    == LocalTileLayer(tiles_loc(InitialDate, "source_tiles"), 1)
           rds     == LocalTileLayer(tiles_loc(InitialDate, "roads_tiles"), 2)
           bld == LocalTileLayer(tiles_loc(InitialDate, "buildings_tiles"), 3)
       IN  /\ source_layer' = src
           /\ roads_layer' = rds
           /\ buildings_layer' = bld
           /\ m' = add_layer(add_layer(add_layer(<<>>, src), rds), bld)
    /\ slider_pc' = "observing"
    /\ UNCHANGED <<tiles, handled>>
    /\ UNCHANGED slider_frame

\* The slider is moved to another option: its value changes and the
\* observer display_tiles runs.
display_tiles ==
    /\ slider_pc = "observing"
    /\ Len(handled) < MaxEvents
    /\ \E value \in Range(times) \ {date_slider} :
          LET date == IF current_date # value THEN value ELSE current_date
              n    == 3 * Len(handled) + 3
              src  == LocalTileLayer(tiles_loc(date, "source_tiles"), n + 1)
              rds  == LocalTileLayer(tiles_loc(date, "roads_tiles"), n + 2)
              bld  == LocalTileLayer(tiles_loc(date, "buildings_tiles"), n + 3)
          IN  /\ date_slider' = value
              /\ current_date' = date
              /\ source_layer' = src
              /\ roads_layer' = rds
              /\ buildings_layer' = bld
              /\ m' = add_layer(add_layer(add_layer(m, src), rds), bld)
              /\ handled' = Append(handled, value)
    /\ UNCHANGED <<tiles, slider_pc>>
    /\ UNCHANGED slider_frame

NextSlider ==
    \/ SliderCell
    \/ display_tiles

SpecSlider == InitSlider /\ [][NextSlider]_vars

\* --------------------------------------------------------- download_results
\* The names of an order's results.
ResultNames == {"a.tif", "b.tif", "c.json"}

\* An entry of results: r['location'] and r['name'].
ResultOf(name) == [location |-> <<"location", name>>, name |-> name]

\* The lists of results: up to MaxResults entries with different names.
ResultLists ==
    {q \in SeqsUpTo({ResultOf(name) : name \in ResultNames}, MaxResults) :
        \A i, j \in 1..Len(q) : q[i] = q[j] => i = j}

\* No file, a file that was there before, and the file written from r.content.
NoFile == [exists |-> FALSE]
OldFile == [exists |-> TRUE, content |-> <<"old">>]
Downloaded(location) == [exists |-> TRUE, content |-> <<"content", location>>]

\* Variant of the test: every result is downloaded.
should_download_always(ow, file_at_path) == TRUE

\* overwrite or not path.exists()
should_download(ow, file_at_path) == ow \/ ~file_at_path.exists

InitDownload ==
    /\ FootprintIdle
    /\ FeedIdle
    /\ HeatIdle
    /\ SliderIdle
    /\ PixelIdle
    /\ data_dir \in [ResultNames -> {NoFile, OldFile}]
    /\ results \in ResultLists
    /\ overwrite = FALSE
    /\ dl_pc = "ready"
    /\ dl_pos = 0
    /\ requested = <<>>
    /\ calls = 0
    /\ data_before = data_dir

\* download_results(results, overwrite) is called, up to the loop.
download_results ==
    /\ dl_pc \in {"ready", "returned"}
    /\ calls < MaxCalls
    /\ overwrite' \in BOOLEAN
    /\ calls' = calls + 1
    /\ dl_pos' = 0
    /\ data_before' = data_dir
    /\ dl_pc' = "loop"
    /\ UNCHANGED <<data_dir, results, requested>>
    /\ UNCHANGED download_frame

\* One pass of the loop: the result is requested and written, or skipped.
DownloadOne ==
    /\ dl_pc = "loop"
    /\ dl_pos < Len(results)
    /\ LET r == results[dl_pos + 1]
       IN  IF should_download(overwrite, data_dir[r.name])
           THEN /\ requested' = Append(requested, [call |-> calls, url |-> r.location])
                /\ data_dir' = [data_dir EXCEPT ![r.name] = Downloaded(r.location)]
           ELSE UNCHANGED <<requested, data_dir>>
    /\ dl_pos' = dl_pos + 1
    /\ UNCHANGED <<results, overwrite, dl_pc, calls, data_before>>
    /\ UNCHANGED download_frame

\* The loop has taken every pair: the call returns.
DownloadReturn ==
    /\ dl_pc = "loop"
    /\ dl_pos = Len(results)
    /\ dl_pc' = "returned"
    /\ UNCHANGED <<data_dir, results, overwrite, dl_pos, requested, calls, data_before>>
    /\ UNCHANGED download_frame

NextDownload ==
    \/ download_results
    \/ DownloadOne
    \/ DownloadReturn

SpecDownload == InitDownload /\ [][NextDownload]_vars

\* ------------------------------------------------------ the pixel-count cell
\* Row k of quads: its date and the urls of its two result quads.
QuadRow(date, k) ==
    [date           |-> date,
     buildings_quad |-> <<"buildings_quad", k>>,
     roads_quad     |-> <<"roads_quad", k>>]

\* quads, sorted by date: rows of the first date, then rows of the last.
QuadFrames ==
    {[k \in 1..n |-> QuadRow(IF k <= early THEN "2017-04-01" ELSE "2017-10-01", k)] :
        n \in 0..MaxQuadRows, early \in 0..MaxQuadRows} \ {<<>>}

QuadUrls(rows) ==
    {rows[k].buildings_quad : k \in 1..Len(rows)}
        \cup {rows[k].roads_quad : k \in 1..Len(rows)}

\* The responses to requests.get(quad_url, allow_redirects=False): a
\* redirect with its Location header, found or moved, or an error.
Redirect(status, quad_url) ==
    [status_code |-> status, headers |-> [Location |-> <<"download", quad_url>>]]

NotFound == [status_code |-> 404, headers |-> [Server |-> "nginx"]]

\* All quads answer 302, or one of them answers something else.
ResponseMaps(rows) ==
    LET good == [q \in QuadUrls(rows) |-> Redirect(redirect_status, q)]
    IN  {good}
            \cup {[good EXCEPT ![q] = Redirect(301, q)] : q \in QuadUrls(rows)}
            \cup {[good EXCEPT ![q] = NotFound] : q \in QuadUrls(rows)}

\* The windows of the segmentation masks: arrays of pixel values.
Windows == << <<0, 0, 0>>, <<0, 255, 1>>, <<255, 255, 255, 0>> >>

\* The windows behind the download urls: they differ from row to row and
\* between the buildings and the roads of a row.
RasterMaps(rows) ==
    {[u \in {<<"download", q>> : q \in QuadUrls(rows)} |->
         Windows[((u[2][2] + shift + (IF u[2][1] = "roads_quad" THEN 1 ELSE 0)) % 3) + 1]] :
        shift \in 0..2}

\* count_nonzero(windarray)
count_nonzero(windarray) ==
    Cardinality({k \in 1..Len(windarray) : windarray[k] # 0})

\* Variant of the check: any redirect status passes.
status_ok_any_redirect(status) == status \in {301, 302, 307}

\* assert resp.status_code == 302
status_ok(status) == status = redirect_status

\* get_download_url(quad_url, auth): the Location header of the
\* response, or an AssertionError.
get_download_url(quad_url) ==
    LET resp == responses[quad_url]
    IN  IF status_ok(resp.status_code)
        THEN [raised |-> FALSE, value |-> resp.headers.Location]
        ELSE [raised |-> TRUE]

\* Variant of the start of a pass of the outer loop: the sum is carried on.
accumulator_kept(sum) == sum

\* building_pixels = 0; roads_pixels = 0
accumulator_reset(sum) == 0

\* quads.loc[quads['date'] == time, :]: the rows of the time.
rows_of(time) == SelectSeq(quads, LAMBDA row : row.date = time)

InitPixels ==
    /\ FootprintIdle
    /\ FeedIdle
    /\ HeatIdle
    /\ DownloadIdle
    /\ quads \in QuadFrames
    /\ tiles = [k \in 1..Len(unique(quads)) |-> TileRow(unique(quads)[k], 1)]
    /\ slider_pc = "idle"
    /\ date_slider = None
    /\ current_date = None
    /\ source_layer = Unbound
    /\ roads_layer = Unbound
    /\ buildings_layer = Unbound
    /\ m = <<>>
    /\ handled = <<>>
    /\ responses \in ResponseMaps(quads)
    /\ rasters \in RasterMaps(quads)
    /\ px_pc = "cell"
    /\ time_pos = 0
    /\ row_pos = 0
    /\ building_pixels = 0
    /\ roads_pixels = 0
    /\ pixel_counts = <<>>
    /\ quad_requests = <<>>
    /\ opened = <<>>

\* pixel_counts = {time: {'building_px': 0, 'road_px': 0, 'total_px': 0}
\* for time in times}
PixelCell ==
    /\ px_pc = "cell"
    /\ pixel_counts' = [time \in Range(times) |->
                           [building_px |-> 0, road_px |-> 0, total_px |-> 0]]
    /\ px_pc' = "time"
    /\ UNCHANGED <<quads, responses, rasters, time_pos, row_pos, building_pixels,
                   roads_pixels, quad_requests, opened>>
    /\ UNCHANGED pixel_frame

\* for time in times: the accumulators are set to zero.
NextTime ==
    /\ px_pc = "time"
    /\ time_pos < Len(times)
    /\ building_pixels' = accumulator_reset(building_pixels)
    /\ roads_pixels' = accumulator_reset(roads_pixels)
    /\ row_pos' = 0
    /\ px_pc' = "rows"
    /\ UNCHANGED <<quads, responses, rasters, time_pos, pixel_counts, quad_requests,
                   opened>>
    /\ UNCHANGED pixel_frame

\* One pass of the inner loop in which an assertion of get_download_url
\* fails: the exception ends the cell before any rasterio.open of the row.
GetDownloadUrlRaises ==
    /\ px_pc = "rows"
    /\ row_pos < Len(rows_of(times[time_pos + 1]))
    /\ LET row == rows_of(times[time_pos + 1])[row_pos + 1]
       IN  \/ /\ get_download_url(row.buildings_quad).raised
              /\ quad_requests' = Append(quad_requests, row.buildings_quad)
           \/ /\ ~get_download_url(row.buildings_quad).raised
              /\ get_download_url(row.roads_quad).raised
              /\ quad_requests' =
                     quad_requests \o <<row.buildings_quad, row.roads_quad>>
    /\ px_pc' = "AssertionError"
    /\ UNCHANGED <<quads, responses, rasters, time_pos, row_pos, building_pixels,
                   roads_pixels, pixel_counts, opened>>
    /\ UNCHANGED pixel_frame

\* One pass of the inner loop: both download urls are fetched, both
\* rasters opened, their windows read and counted, the counts added.
CountRow ==
    /\ px_pc = "rows"
    /\ row_pos < Len(rows_of(times[time_pos + 1]))
    /\ LET row           == rows_of(times[time_pos + 1])[row_pos + 1]
           buildings_url == get_download_url(row.buildings_quad)
           roads_url     == get_download_url(row.roads_quad)
       IN  /\ ~buildings_url.raised
           /\ ~roads_url.raised
           /\ quad_requests' =
                  quad_requests \o <<row.buildings_quad, row.roads_quad>>
           /\ opened' = opened \o <<buildings_url.value, roads_url.value>>
           /\ building_pixels' =
                  building_pixels + count_nonzero(rasters[buildings_url.value])
           /\ roads_pixels' = roads_pixels + count_nonzero(rasters[roads_url.value])
    /\ row_pos' = row_pos + 1
    /\ UNCHANGED <<quads, responses, rasters, px_pc, time_pos, pixel_counts>>
    /\ UNCHANGED pixel_frame

\* The rows of the time are done: the three counts are stored under it.
StoreCounts ==
    /\ px_pc = "rows"
    /\ row_pos = Len(rows_of(times[time_pos + 1]))
    /\ pixel_counts' =
           [pixel_counts EXCEPT ![times[time_pos + 1]] =
               [building_px |-> building_pixels,
                road_px     |-> roads_pixels,
                total_px    |-> building_pixels + roads_pixels]]
    /\ time_pos' = time_pos + 1
    /\ px_pc' = "time"
    /\ UNCHANGED <<quads, responses, rasters, row_pos, building_pixels, roads_pixels,
                   quad_requests, opened>>
    /\ UNCHANGED pixel_frame

\* The outer loop is exhausted.
PixelLoopEnds ==
    /\ px_pc = "time"
    /\ time_pos = Len(times)
    /\ px_pc' = "done"
    /\ UNCHANGED <<quads, responses, rasters, time_pos, row_pos, building_pixels,
                   roads_pixels, pixel_counts, quad_requests, opened>>
    /\ UNCHANGED pixel_frame

NextPixels ==
    \/ PixelCell
    \/ NextTime
    \/ GetDownloadUrlRaises
    \/ CountRow
    \/ StoreCounts
    \/ PixelLoopEnds

SpecPixels == InitPixels /\ [][NextPixels]_vars

\* =================================================================== claims
\* Definitions used to state the claims.
proc == "buildings_as_vectors_proc"
simp == "buildings_as_vectors_with_simplification"
basic == "buildings_as_vectors"

Built == pc \in {"built", "returned", "pull", "filter", "simplify", "project",
                 "mapping", "write", "done", "aborted"}
Saving == Built /\ pc \notin {"built", "returned"}
InFlight == pc \in {"filter", "simplify", "project", "mapping", "write"}
Vectorized == Built /\ building_shapes.started
Items == building_shapes.items
Foreground == {p \in DOMAIN file.band : file.band[p] = 255}

\* The indices of the extracted geometries that have a record in the output.
WrittenIdx == IF Saving THEN {c[k].idx : k \in 1..Len(c)} ELSE {}
\* The extracted geometries the area filter has decided on, and those it let through.
Decided(i) == <<"filter", i>> \in Range(log)
Kept(i) == \/ i \in WrittenIdx
           \/ InFlight /\ g.idx = i /\ pc # "filter"
\* Twice the area of extracted geometry i as the extractor emitted it.
ItemArea2(i) == area2(sshape(Items[i].s))

\* C1: in buildings_as_vectors_proc with filter_and_simplify_footprints a
\* geometry the filter has decided on is kept exactly when its pixel-space
\* area is at least the threshold (min_pixel_size, 6): area 6 is kept, area 5
\* is dropped, and the 2 x 2 block of Scenario A gives no output.
Thm_C1_AreaFilter ==
    (fn = proc /\ Vectorized) =>
        /\ \A i \in 1..Len(Items) :
             Decided(i) => (Kept(i) <=> ItemArea2(i) >= 2 * 6)
        /\ pc = "done" =>
             /\ \A i \in 1..Len(Items) : Decided(i)
             /\ file.band = ScenarioA => c = <<>>

Wit_C1_AreaFilter ==
    /\ fn = proc /\ pc = "done"
    /\ \E i, j \in 1..Len(Items) :
         /\ ItemArea2(i) = 2 * 6 /\ i \in WrittenIdx
         /\ ItemArea2(j) = 2 * 5 /\ j \notin WrittenIdx

\* C2: in buildings_as_vectors_proc the written geometries keep the
\* extractor's order, every geometry is simplified only directly after it
\* passed the filter, and two geometries of equal area get the same
\* decision whatever else is in the sequence.
Thm_C2_OrderAndIndependence ==
    (fn = proc /\ Vectorized) =>
        /\ \A k \in 1..(Len(c) - 1) : c[k].idx < c[k + 1].idx
        /\ \A n \in 1..Len(log) :
             log[n][1] = "simplify" => (n > 1 /\ log[n - 1] = <<"filter", log[n][2]>>)
        /\ \A i, j \in 1..Len(Items) :
             (Decided(i) /\ Decided(j) /\ ItemArea2(i) = ItemArea2(j))
                => (Kept(i) <=> Kept(j))

Wit_C2_OrderAndIndependence ==
    /\ fn = proc /\ pc = "done"
    /\ Len(c) >= 2
    /\ \E i \in 1..Len(Items) : c[1].idx < i /\ i < c[2].idx

\* The corners of the pixels of a region.
Corners(region) ==
    UNION {{<<p[1], p[2]>>, <<p[1] + 1, p[2]>>, <<p[1], p[2] + 1>>, <<p[1] + 1, p[2] + 1>>}
           : p \in region}

\* C3: in buildings_as_vectors_proc the geometry that the filter and the
\* simplification see is in pixel coordinates whatever the raster transform
\* is, and a geometry is kept exactly when its region has at least 6
\* pixels, never by its projected area.
Thm_C3_PixelSpaceFiltering ==
    (fn = proc /\ Vectorized) =>
        /\ (pc \in {"filter", "simplify", "project"}) =>
               Range(g.geom.exterior) \subseteq Corners(Items[g.idx].region)
        /\ \A i \in 1..Len(Items) :
               Decided(i) => (Kept(i) <=> Cardinality(Items[i].region) >= 6)

\* Twice the area extracted geometry i has once projected with the raster transform.
ProjectedArea2(i) ==
    LET t == file.transform
    IN  Abs(t[1] * t[5] - t[2] * t[4]) * 2 * Cardinality(Items[i].region)

Wit_C3_PixelSpaceFiltering ==
    /\ fn = proc /\ pc = "done" /\ file.transform = ScenarioD
    /\ \E i \in 1..Len(Items) :
         /\ Cardinality(Items[i].region) = 4
         /\ ProjectedArea2(i) = 2 * 16
         /\ i \notin WrittenIdx

\* (a*col + b*row + c, d*col + e*row + f) for the raster transform t.
StandardAffine(t, p) ==
    <<t[1] * p[1] + t[2] * p[2] + t[3], t[4] * p[1] + t[5] * p[2] + t[6]>>

RingsOf(poly) == IF poly.exterior = <<>> THEN <<>> ELSE <<poly.exterior>> \o poly.interiors

\* C4: in the two shapely variants every vertex of every ring of a written
\* geometry is the image of the processed pixel-space vertex under
\* (a*col + b*row + c, d*col + e*row + f) with the raster transform's
\* coefficients.
Thm_C4_AffineProjection ==
    (fn # basic /\ Saving) =>
        \A k \in 1..Len(c) :
            LET src == RingsOf(c[k].pixel)
                out == c[k].geometry.coordinates
            IN  /\ Len(out) = Len(src)
                /\ \A r \in 1..Len(src) :
                     /\ Len(out[r]) = Len(src[r])
                     /\ \A n \in 1..Len(src[r]) :
                          out[r][n] = StandardAffine(file.transform, src[r][n])

Wit_C4_AffineProjection ==
    /\ fn # basic /\ Saving /\ file.transform = <<2, 0, 100, 0, -2, 200>>
    /\ \E k \in 1..Len(c) :
         \E n \in 1..Len(c[k].pixel.exterior) :
            /\ c[k].pixel.exterior[n] = <<1, 1>>
            /\ c[k].geometry.coordinates[1][n] = <<102, 198>>

Det(t) == t[1] * t[5] - t[2] * t[4]

\* Det(t) times the inverse of the raster transform t applied to q.
InverseTimesDet(t, q) ==
    << t[5] * (q[1] - t[3]) - t[2] * (q[2] - t[6]),
       t[1] * (q[2] - t[6]) - t[4] * (q[1] - t[3]) >>

\* C5: for an invertible raster transform, the inverse transform applied to
\* a written (projected) vertex gives back the pixel-space vertex.
Thm_C5_RoundTrip ==
    (fn # basic /\ Saving /\ Det(file.transform) # 0) =>
        \A k \in 1..Len(c) :
            LET src == RingsOf(c[k].pixel)
                out == c[k].geometry.coordinates
            IN  \A r \in 1..Len(out) : \A n \in 1..Len(out[r]) :
                    InverseTimesDet(file.transform, out[r][n])
                        = <<Det(file.transform) * src[r][n][1],
                            Det(file.transform) * src[r][n][2]>>

Wit_C5_RoundTrip ==
    /\ fn # basic /\ Saving
    /\ Det(file.transform) \notin {0, 1}
    /\ file.transform[2] # 0
    /\ \E k \in 1..Len(c) : c[k].geometry.coordinates # <<>>


\* The transform the extractor was given: the raster transform in
\* buildings_as_vectors, none (identity) in the two shapely variants.
ExtractorTransform == IF fn = basic THEN file.transform ELSE <<1, 0, 0, 0, 1, 0>>

\* The corners of the band's pixels.
Lattice ==
    LET w == Cardinality({p[1] : p \in DOMAIN file.band})
        h == Cardinality({p[2] : p \in DOMAIN file.band})
    IN  (0..w) \X (0..h)

\* The rings of extracted geometry i taken back to pixel coordinates: every
\* vertex is replaced by the pixel corner that the extractor's transform
\* maps to it (by <<-1, -1>> if there is none).
PixelRingsOfItem(i) ==
    LET rings == Items[i].s.coordinates
        lat   == Lattice
        t     == ExtractorTransform
        back(v) == LET qs == {q \in lat : StandardAffine(t, q) = v}
                   IN  IF qs = {} THEN <<-1, -1>> ELSE CHOOSE q \in qs : TRUE
    IN  [r \in 1..Len(rings) |-> [n \in 1..Len(rings[r]) |-> back(rings[r][n])] \o <<>>] \o <<>>

\* Pixel p lies inside the polygon with these (rectilinear) rings: a ray
\* from the pixel's centre to the right crosses an odd number of ring edges.
Covered(p, rings) ==
    Cardinality({rn \in UNION {{<<r, n>> : n \in 1..(Len(rings[r]) - 1)} : r \in 1..Len(rings)} :
                   LET a == rings[rn[1]][rn[2]]
                       b == rings[rn[1]][rn[2] + 1]
                   IN  /\ a[1] = b[1]
                       /\ a[1] > p[1]
                       /\ ((a[2] <= p[2] /\ p[2] < b[2]) \/ (b[2] <= p[2] /\ p[2] < a[2]))})
      % 2 = 1

\* The pixels that extracted geometry i covers.
CoveredSet(i) ==
    LET rings == PixelRingsOfItem(i)
    IN  {p \in DOMAIN file.band : Covered(p, rings)}

\* <<CoveredSet(1), ..., CoveredSet(n)>>.
RECURSIVE CoveredSets(_)
CoveredSets(n) == IF n = 0 THEN <<>> ELSE Append(CoveredSets(n - 1), CoveredSet(n))

\* C6: in all three variants the mask is true exactly where the band is 255,
\* every emitted polygon has the value 255 and covers only pixels whose
\* value is 255.
Thm_C6_MaskedForegroundOnly ==
    /\ Built => building_mask = [p \in DOMAIN file.band |-> file.band[p] = 255]
    /\ Vectorized =>
         /\ \A i \in 1..Len(Items) : Items[i].v = 255
         /\ LET cov == CoveredSets(Len(Items))
            IN  \A i \in 1..Len(Items) :
                   /\ cov[i] # {}
                   /\ \A p \in cov[i] : file.band[p] = 255

Wit_C6_MaskedForegroundOnly ==
    /\ Vectorized
    /\ Len(Items) >= 1
    /\ \E p, q \in DOMAIN file.band : file.band[p] = 0 /\ file.band[q] \notin {0, 255}

Adjacent4(p, q) == Abs(p[1] - q[1]) + Abs(p[2] - q[2]) = 1

RECURSIVE Closure4(_, _)
Closure4(seen, S) ==
    LET more == {q \in S \ seen : \E p \in seen : Adjacent4(p, q)}
    IN  IF more = {} THEN seen ELSE Closure4(seen \cup more, S)

Connected4(S) == S # {} /\ Closure4({CHOOSE p \in S : TRUE}, S) = S

\* The statement of C7, with the areas equal to `scale` times the pixel
\* counts of the regions.
RegionsAndAreas(scale) ==
    Vectorized =>
        LET cov == CoveredSets(Len(Items))
        IN  /\ \A i \in 1..Len(Items) :
                 /\ Connected4(cov[i])
                 /\ \A q \in Foreground \ cov[i] : \A p \in cov[i] : ~Adjacent4(p, q)
                 /\ cov[i] = Items[i].region
                 /\ ItemArea2(i) = scale * 2 * Cardinality(cov[i])
            /\ \A i, j \in 1..Len(Items) : i # j => cov[i] \cap cov[j] = {}
            /\ UNION {cov[i] : i \in 1..Len(Items)} = Foreground

\* C7 as stated: one polygon per maximal connected region of foreground
\* pixels, each with area equal to the number of pixels of its region.
Orig_C7_AreaIsPixelCount == RegionsAndAreas(1)

\* C7 (amended): whatever the traversal order, the extractor emits exactly
\* one polygon per maximal 4-connected region of foreground pixels, and its
\* area is the region's pixel count times |a*e - b*d| of the transform
\* given to the extractor (the pixel count itself in the two shapely
\* variants, which vectorize in pixel space).
Thm_C7_OnePolygonPerRegion == RegionsAndAreas(Abs(Det(ExtractorTransform)))

Wit_C7_OnePolygonPerRegion ==
    /\ Vectorized
    /\ file.band = ScenarioC
    /\ Len(Items) = 2
    /\ {ItemArea2(1), ItemArea2(2)} = {2 * 2 * 4, 2 * 4 * 4}
    /\ Abs(Det(ExtractorTransform)) = 4
    /\ building_shapes.pos = 2

\* The closed ring is the cycle pts up to starting vertex and orientation.
SameRing(ring, pts) ==
    LET npts == Len(pts)
    IN  /\ Len(ring) = npts + 1
        /\ ring[npts + 1] = ring[1]
        /\ \E k \in 0..(npts - 1) :
             \/ \A n \in 1..npts : ring[n] = pts[((k + n - 1) % npts) + 1]
             \/ \A n \in 1..npts : ring[n] = pts[((k + npts - (n - 1)) % npts) + 1]

\* C8 (Scenario A): for the 4 x 4 band with the 2 x 2 block at rows 1-2,
\* cols 1-2 and the identity transform the extractor yields one polygon of
\* area 4 with the single ring (1,1),(3,1),(3,3),(1,3).
Thm_C8_ScenarioA ==
    (Vectorized /\ file.band = ScenarioA /\ file.transform = <<1, 0, 0, 0, 1, 0>>) =>
        /\ Len(Items) = 1
        /\ ItemArea2(1) = 2 * 4
        /\ Len(Items[1].s.coordinates) = 1
        /\ SameRing(Items[1].s.coordinates[1], <<<<1, 1>>, <<3, 1>>, <<3, 3>>, <<1, 3>>>>)

Wit_C8_ScenarioA ==
    /\ Vectorized /\ file.band = ScenarioA /\ file.transform = <<1, 0, 0, 0, 1, 0>>
    /\ fn = basic
    /\ building_shapes.pos = 1

\* C9: for a band without any pixel equal to 255 the extractor yields the
\* empty sequence, no geometry ever travels through the chain, nothing is
\* written and the count printed is 0.
Thm_C9_NoForeground ==
    (Foreground = {}) =>
        /\ Vectorized => Items = <<>>
        /\ ~InFlight
        /\ Saving => (c = <<>> /\ count = 0)
        /\ pc = "done" => stdout = <<0>>

Wit_C9_NoForeground ==
    /\ Foreground = {}
    /\ pc = "done"
    /\ stdout = <<0>>
    /\ \E p \in DOMAIN file.band : file.band[p] # 0

\* The number of written records that derive from extracted geometry i.
Outputs(i) == Cardinality({k \in 1..Len(c) : c[k].idx = i})

\* C10 as stated: after a run of buildings_as_vectors_proc with
\* filter_and_simplify_footprints every extracted geometry has exactly one
\* written counterpart.
Orig_C10_ExactlyOneOutput ==
    (fn = proc /\ pc = "done") => \A i \in 1..Len(Items) : Outputs(i) = 1

\* C10 (amended): no extracted geometry is written more than once, every
\* written record derives from one extracted geometry, and after the run a
\* geometry has exactly one written counterpart if its region has at least
\* 6 pixels and none otherwise (the area filter dropped it).
Thm_C10_AtMostOneOutput ==
    (fn = proc /\ Vectorized) =>
        /\ \A i \in 1..Len(Items) : Outputs(i) <= 1
        /\ \A k \in 1..Len(c) :
             /\ c[k].idx \in 1..building_shapes.pos
             /\ c[k].geometry.type = "Polygon"
        /\ Len(c) = count
        /\ pc = "done" =>
             \A i \in 1..Len(Items) :
                Outputs(i) = IF Cardinality(Items[i].region) >= 6 THEN 1 ELSE 0

Wit_C10_AtMostOneOutput ==
    /\ fn = proc /\ pc = "done"
    /\ \E i, j \in 1..Len(Items) : Outputs(i) = 1 /\ Outputs(j) = 0

\* The stage events of the log that belong to geometry i, and all events
\* of one stage.
EventsOf(i) == SelectSeq(log, LAMBDA e : e[2] = i)
StageEvents(stage) == SelectSeq(log, LAMBDA e : e[1] = stage)
Pulled == IF Vectorized THEN building_shapes.pos ELSE 0

\* C11: while save_as_shapefile consumes the chain of
\* buildings_as_vectors_proc, the extractor's geometries are pulled one by
\* one, each exactly once and all of them by the end; geometry i + 1 is
\* pulled only directly after geometry i was written (or dropped by the
\* filter), so the only geometry between extraction and write is the one
\* last pulled.
Thm_C11_SinglePassStreaming ==
    (fn = proc /\ Vectorized) =>
        /\ StageEvents("extract") = [i \in 1..Pulled |-> <<"extract", i>>]
        /\ pc = "done" => Pulled = Len(Items)
        /\ \A n \in 2..Len(log) :
             log[n][1] = "extract" =>
                 log[n - 1] \in {<<"write", log[n][2] - 1>>, <<"filter", log[n][2] - 1>>}
        /\ InFlight => (g.idx = Pulled /\ g.idx \notin WrittenIdx)
        /\ \A i \in 1..Pulled :
             \/ i \in WrittenIdx
             \/ InFlight /\ g.idx = i
             \/ Decided(i) /\ ~Kept(i)

Wit_C11_SinglePassStreaming ==
    /\ fn = proc /\ pc = "write"
    /\ g.idx = 3 /\ WrittenIdx = {1} /\ Len(Items) = 4

\* The stages a written geometry of buildings_as_vectors_proc passes.
Downstream == <<"extract", "filter", "simplify", "project", "mapping", "write">>
StagesOf(i) == [k \in 1..Len(EventsOf(i)) |-> EventsOf(i)[k][1]]
IsPrefix(a, b) == Len(a) <= Len(b) /\ a = SubSeq(b, 1, Len(a))
\* What the extractor emitted as geometry i, and what the stages make of it.
Extracted(i) == sshape(Items[i].s)
Processed(i) == simplify(Extracted(i), 1)
Projected(i) == affine_transform(Processed(i), shapely_transform(file.transform))

\* C12: in buildings_as_vectors_proc the stage events of every geometry
\* are a prefix of extract, filter, simplify, project, mapping, write (all
\* six for a written geometry), and every stage is handed the value of the
\* stage before it: filter and simplify get the extractor's pixel-space
\* geometry, the projection the simplified one, the serialization the
\* projected one.
Thm_C12_DownstreamOnly ==
    (fn = proc /\ Vectorized) =>
        /\ \A i \in 1..Pulled : IsPrefix(StagesOf(i), Downstream)
        /\ \A i \in WrittenIdx : StagesOf(i) = Downstream
        /\ pc \in {"filter", "simplify"} => g.geom = Extracted(g.idx)
        /\ pc = "project" => g.geom = Processed(g.idx)
        /\ pc = "mapping" => g.geom = Projected(g.idx)
        /\ pc = "write" => g.geom = mapping(Projected(g.idx))

Wit_C12_DownstreamOnly ==
    /\ fn = proc /\ pc = "done"
    /\ file.transform = ScenarioD
    /\ \E i \in WrittenIdx : Processed(i) # Extracted(i) /\ Processed(i).exterior # <<>>

\* C13: the sequence returned by each of the three functions is finite and
\* cannot be restarted: the first call of save_as_shapefile pulls every
\* geometry once, and a later call on the same sequence pulls nothing,
\* writes nothing and reports 0 geometries.
Thm_C13_NonRestartable ==
    (fn \in Variants /\ Vectorized) =>
        /\ Pulled <= Len(Items)
        /\ Len(StageEvents("extract")) = Pulled
        /\ Len(stdout) >= 1 =>
              /\ Pulled = Len(Items)
              /\ pc # "done" => (c = <<>> /\ count = 0)
              /\ \A k \in 2..Len(stdout) : stdout[k] = 0
        /\ (pc = "done" /\ Len(stdout) >= 2) => (c = <<>> /\ count = 0)

Wit_C13_NonRestartable ==
    /\ fn \in Variants /\ pc = "done"
    /\ Len(stdout) = 2 /\ stdout[1] >= 2 /\ stdout[2] = 0 /\ c = <<>>

\* The number of geometries in the sequence handed to save_as_shapefile:
\* every extracted geometry, or in buildings_as_vectors_proc those of at
\* least 6 pixels.
Yielded ==
    IF fn = proc THEN Cardinality({i \in 1..Len(Items) : Cardinality(Items[i].region) >= 6})
    ELSE Len(Items)

\* C14 as stated: save_as_shapefile returns the number of geometries written.
Orig_C14_ReturnsCount ==
    (fn \in Variants /\ pc = "done") =>
        (result.type = "int" /\ result.value = Len(c))

\* C14: save_as_shapefile returns nothing (None); the count of geometries
\* written is what it prints, and that count equals the number of records
\* written and the number of geometries in the sequence it was given.
Thm_C14_PrintsCount ==
    (fn \in Variants /\ Vectorized) =>
        /\ pc \in {"pull", "done"} => count = Len(c)
        /\ pc = "done" =>
              /\ result = [type |-> "NoneType"]
              /\ stdout = <<Len(c)>>
              /\ Len(c) = Yielded

Wit_C14_PrintsCount ==
    /\ fn = proc /\ pc = "done"
    /\ stdout = <<2>> /\ Len(Items) = 4

\* C15: with min_pixel_size = 0 the area filter lets every geometry of
\* the extractor through, unchanged and in the extractor's order, so what
\* leaves the filter is the sequence that entered it.
Thm_C15_FilterZeroNoOp ==
    (fn = proc /\ Vectorized /\ proc_fcn.min_pixel_size = 0) =>
        /\ \A i \in 1..Pulled : Decided(i) => Kept(i)
        /\ \A n \in 1..(Len(log) - 1) :
             log[n][1] = "filter" => log[n + 1] = <<"simplify", log[n][2]>>
        /\ pc = "simplify" => g.geom = Extracted(g.idx)
        /\ pc = "done" => [k \in 1..Len(c) |-> c[k].idx] = [k \in 1..Len(Items) |-> k]

Wit_C15_FilterZeroNoOp ==
    /\ fn = proc /\ pc = "done" /\ proc_fcn.min_pixel_size = 0
    /\ Len(c) = 4
    /\ \E i \in WrittenIdx : Cardinality(Items[i].region) = 1

NegativeConfig == proc_fcn.tolerance < 0 \/ proc_fcn.min_pixel_size < 0
Raised == {e[2] : e \in Range(StageEvents("raise"))}

\* C17 as stated: with a negative tolerance or a negative area threshold
\* the call is rejected before the raster is touched: the file is never
\* opened, and no geometry is extracted, processed or written.
Orig_C17_NegativeRejected ==
    (fn = proc /\ NegativeConfig) =>
        /\ dataset = "unopened"
        /\ log = <<>>
        /\ pc \notin {"write", "done"}

\* C18 as stated: when the simplification raises for a geometry, that
\* geometry is skipped and the run goes on: it is never aborted, it ends
\* with every other geometry that passes the filter written, and it
\* reports the number of skipped geometries.
Orig_C18_SkipAndContinue ==
    (fn = proc /\ Vectorized /\ Raised # {}) =>
        /\ pc # "aborted"
        /\ pc = "done" =>
              /\ WrittenIdx = {i \in 1..Len(Items) : AreaFilter(Extracted(i))} \ Raised
              /\ Cardinality(Raised) \in Range(stdout)

\* C19: the dataset is open only inside the with block of the loading
\* function and closed once the function has returned or raised; all that
\* the traversal of the returned sequence uses (band, mask, transform, CRS)
\* was read before, while the dataset was open, and _open's data likewise.
Thm_C19_HandleScopedToLoad ==
    /\ dataset = "open" <=> pc \in {"opened", "built", "read"}
    /\ pc \notin {"call", "opened", "built", "read", "open_error"} => dataset = "closed"
    /\ pc = "open_error" => dataset = "unopened"
    /\ (fn \in Variants /\ Built) =>
          /\ buildings = file.band
          /\ building_mask = [p \in DOMAIN file.band |-> file.band[p] = 255]
          /\ building_shapes.transform = (IF fn = basic THEN file.transform ELSE IDENTITY)
          /\ fn # basic => d = file.transform
          /\ crs = file.crs
    /\ pc \in {"read", "open_returned"} => data.bands = file.band

Wit_C19_HandleScopedToLoad ==
    /\ fn = proc /\ pc = "project" /\ dataset = "closed"
    /\ d = ScenarioD /\ g.idx = 3

\* C20: transform and CRS are read once, inside the with block, and stay
\* what the raster holds: the collection is opened with the raster's CRS
\* and every written geometry is its pixel-space geometry mapped with the
\* raster's six coefficients, whatever processing function is in use.
Thm_C20_TransformAndCrsFixed ==
    (fn \in Variants /\ Built) =>
        /\ crs = file.crs
        /\ fn # basic => d = file.transform
        /\ Saving => c_crs = file.crs
        /\ (fn # basic /\ Saving) =>
              \A k \in 1..Len(c) :
                 c[k].geometry =
                    mapping(affine_transform(c[k].pixel, shapely_transform(file.transform)))

Wit_C20_TransformAndCrsFixed ==
    /\ fn = proc /\ pc = "done"
    /\ proc_fcn = [min_pixel_size |-> 0, tolerance |-> 1]
    /\ file.transform = Sheared /\ c_crs = "EPSG:4326" /\ Len(c) >= 2

\* C21: an open or a read of the raster that fails is not tried again: the
\* call ends there with the error, each operation on the file has been
\* attempted once, and the run extracts, processes and writes nothing.
Thm_C21_NoRetry ==
    /\ io \in {<<>>, <<"open">>, <<"open", "read">>}
    /\ pc = "open_error" => io = <<"open">>
    /\ pc = "load_error" => io = <<"open", "read">>
    /\ pc \in {"open_error", "load_error"} =>
          /\ log = <<>>
          /\ c = <<>>
          /\ stdout = <<>>
          /\ ~ENABLED Next

Wit_C21_NoRetry ==
    /\ fn = proc /\ pc = "load_error" /\ io = <<"open", "read">>

\* What a run of function f on raster fl writes when the extractor hands
\* out the pairs seq: the geometries, in order.
FreshOutput(f, fl, seq) ==
    LET made(item) ==
            mapping(affine_transform(simplify(sshape(item.s), 1),
                                     shapely_transform(fl.transform)))
        kept == SelectSeq(seq, LAMBDA item : Cardinality(item.region) >= 6)
    IN  IF f = basic THEN [k \in 1..Len(seq) |-> seq[k].s]
        ELSE IF f = simp THEN [k \in 1..Len(seq) |-> made(seq[k])]
        ELSE [k \in 1..Len(kept) |-> made(kept[k])]

FreshOutputs(f, fl) ==
    LET fwd == shapes(fl.band,
                      [p \in DOMAIN fl.band |-> fl.band[p] = 255],
                      IF f = basic THEN fl.transform ELSE IDENTITY)
    IN  {FreshOutput(f, fl, fwd), FreshOutput(f, fl, Reverse(fwd))}

\* C22: whatever raster was run before, a finished run has written for
\* its raster exactly the geometries, the count and the CRS that this
\* raster alone determines: the output file holds nothing of an earlier
\* run and the count starts from 0.
Thm_C22_StatelessBetweenRuns ==
    (fn \in Variants /\ pc = "done") =>
        /\ [k \in 1..Len(c) |-> c[k].geometry] \in FreshOutputs(fn, file)
        /\ stdout[Len(stdout)] = Len(c)
        /\ count = Len(c)
        /\ c_crs = file.crs

Wit_C22_StatelessBetweenRuns ==
    /\ fn = proc /\ pc = "done"
    /\ Len(stdout) = 2 /\ stdout[1] = 0 /\ stdout[2] = 2
    /\ file.band = Footprints

\* C25: for every raster, buildings_as_vectors_proc called with the identity
\* processing function writes the same sequence of projected geometries (same
\* order, same rings, same vertices) as buildings_as_vectors yields for that
\* raster, which hands the raster transform to the vectorization call.
Thm_C25_ProjectionsAgree ==
    (fn = proc /\ pc = "done" /\ proc_fcn = identity) =>
        LET pixel == shapes(buildings, building_mask, IDENTITY) \o <<>>
            fwd   == shapes(buildings, building_mask,
                            ShapesTransform(basic, dataset_transform(file))) \o <<>>
            bav   == IF Items = pixel THEN fwd ELSE Reverse(fwd)
        IN  /\ Len(c) = Len(bav)
            /\ \A k \in 1..Len(c) : c[k].geometry = bav[k].s

Wit_C25_ProjectionsAgree ==
    /\ fn = proc /\ pc = "done" /\ proc_fcn = identity
    /\ file.band = Footprints /\ file.transform = Sheared
    /\ Len(c) = 4
    /\ Items # shapes(buildings, building_mask, IDENTITY)

\* The 'next' link of the page at u, read off the page, and the pages met
\* by following the 'next' links from u until there is none or a page comes
\* again.
NextLink(u) ==
    LET page == pages[u]
    IN  IF "links" \notin DOMAIN page THEN None
        ELSE LET ks == {k \in 1..Len(page.links) : page.links[k].rel = "next"}
             IN  IF ks = {} THEN None
                 ELSE page.links[CHOOSE k \in ks : \A j \in ks : k <= j].href

RECURSIVE Walk(_, _)
Walk(u, acc) ==
    IF u = None THEN [chain |-> acc, cyclic |-> FALSE]
    ELSE IF u \in Range(acc) THEN [chain |-> acc, cyclic |-> TRUE]
    ELSE Walk(NextLink(u), Append(acc, u))

Chain == Walk(Url(1), <<>>).chain
FiniteChain == ~Walk(Url(1), <<>>).cyclic

FeaturesAt(u) == IF "features" \in DOMAIN pages[u] THEN pages[u].features ELSE <<>>

RECURSIVE RecordsOf(_)
RecordsOf(chain) ==
    IF chain = <<>> THEN <<>>
    ELSE [k \in 1..Len(FeaturesAt(Head(chain))) |-> ItemOf(FeaturesAt(Head(chain))[k])]
             \o RecordsOf(Tail(chain))

\* C23: for every finite chain of pages, get_items_from_feed returns a
\* list holding exactly one record (lon, lat, area) for every feature of
\* every page reached from the first page by following 'next' links, in page
\* order; chains whose first or last page has no features included.
Orig_C23_ReturnsEveryRecord ==
    (feed_pc = "returned" /\ FiniteChain) =>
        /\ feed_returned.type = "list"
        /\ feed_returned.value = RecordsOf(Chain)

\* The part of the chain that the loop reads: up to the first page without
\* features, or to the last page.
StopAt ==
    LET ks == {k \in 1..Len(Chain) : FeaturesAt(Chain[k]) = <<>>}
    IN  IF ks = {} THEN Len(Chain) ELSE CHOOSE k \in ks : \A j \in ks : k <= j

Visited == SubSeq(Chain, 1, StopAt)

\* C29: when the 'next' links form no cycle, get_items_from_feed ends; it
\* requests the pages of the chain in order, each once, and stops at the first
\* page that has no features or no 'next' link.
Thm_C29_FeedTerminates ==
    /\ [](FiniteChain =>
            /\ IsPrefix(fetched, Visited)
            /\ \A i, j \in 1..Len(fetched) : fetched[i] = fetched[j] => i = j
            /\ feed_pc = "returned" => fetched = Visited)
    /\ (feed_pc = "call" /\ FiniteChain) ~> (feed_pc = "returned")

Wit_C29_FeedTerminates ==
    /\ feed_pc = "returned"
    /\ FiniteChain
    /\ Len(Chain) = 2
    /\ fetched = Chain
    /\ FeaturesAt(Chain[1]) # <<>>
    /\ FeaturesAt(Chain[2]) = <<>>

\* The projected centroid of item i, whether it lies strictly inside BOUNDS,
\* and the items among the first n that do, in order.
Centroid(i) == transformer_transform(items[i].lon, items[i].lat)

StrictlyInside(i) ==
    LET p == Centroid(i)
    IN  /\ BOUNDS[1] * p[1].den < p[1].num /\ p[1].num < BOUNDS[2] * p[1].den
        /\ BOUNDS[3] * p[2].den < p[2].num /\ p[2].num < BOUNDS[4] * p[2].den

RECURSIVE InsideUpTo(_)
InsideUpTo(n) ==
    IF n = 0 THEN <<>>
    ELSE InsideUpTo(n - 1) \o (IF StrictlyInside(n) THEN <<n>> ELSE <<>>)

\* The midpoint of bin k of num equal bins between lo and hi.
Midpoint(lo, hi, num, k) ==
    LET top    == 2 * num * lo + (2 * k - 1) * (hi - lo)
        bottom == 2 * num
        common == GCD(Abs(top), bottom)
    IN  [num |-> top \div common, den |-> bottom \div common]

\* mid is a midpoint of ms nearest to v.
Nearest(mid, ms, v) ==
    /\ mid \in Range(ms)
    /\ \A o \in Range(ms) :
          Abs(mid.num * v.den - v.num * mid.den) * o.den
              <= Abs(o.num * v.den - v.num * o.den) * mid.den

RECURSIVE SumOver(_, _)
SumOver(S, F) ==
    IF S = {} THEN 0
    ELSE LET x == CHOOSE y \in S : TRUE IN F[x] + SumOver(S \ {x}, F)

FirstRowOf(date) ==
    tiles[CHOOSE k \in 1..Len(tiles) :
            /\ tiles[k].date = date
            /\ \A j \in 1..(k - 1) : tiles[j].date # date]

\* The three layers at positions 3k+1 .. 3k+3 of the map show the tiles of date.
LayersShow(k, date) ==
    /\ m[3 * k + 1].path = FirstRowOf(date).source_tiles
    /\ m[3 * k + 2].path = FirstRowOf(date).roads_tiles
    /\ m[3 * k + 3].path = FirstRowOf(date).buildings_tiles

RequestedNow ==
    LET mine == SelectSeq(requested, LAMBDA q : q.call = calls)
    IN  [k \in 1..Len(mine) |-> mine[k].url]

Named == {results[k].name : k \in 1..Len(results)}

\* C27: with overwrite=False download_results never requests or rewrites
\* a result whose file data/<name> exists and leaves that file as it is, and it
\* downloads every result whose file is missing; so a second call with the same
\* results makes no download.  With overwrite=True every result is requested
\* and written.
Thm_C27_OverwriteSemantics ==
    /\ (dl_pc \in {"loop", "returned"} /\ ~overwrite) =>
          /\ \A k \in 1..Len(results) :
                data_before[results[k].name].exists =>
                    /\ results[k].location \notin Range(RequestedNow)
                    /\ data_dir[results[k].name] = data_before[results[k].name]
          /\ calls > 1 => RequestedNow = <<>>
    /\ (dl_pc = "returned" /\ ~overwrite) =>
          /\ \A k \in 1..Len(results) :
                ~data_before[results[k].name].exists =>
                    /\ results[k].location \in Range(RequestedNow)
                    /\ data_dir[results[k].name] = Downloaded(results[k].location)
          /\ Len(RequestedNow)
                 = Cardinality({k \in 1..Len(results) :
                                   ~data_before[results[k].name].exists})
    /\ (dl_pc = "returned" /\ overwrite) =>
          /\ RequestedNow = [k \in 1..Len(results) |-> results[k].location]
          /\ \A k \in 1..Len(results) :
                data_dir[results[k].name] = Downloaded(results[k].location)
    /\ dl_pc \in {"loop", "returned"} =>
          \A name \in ResultNames \ Named : data_dir[name] = data_before[name]

Wit_C27_OverwriteSemantics ==
    /\ dl_pc = "returned"
    /\ calls = 2
    /\ ~overwrite
    /\ Len(results) = 2
    /\ Len(requested) = 1
    /\ requested[1].call = 1
    /\ data_dir[results[1].name] = OldFile
    /\ data_dir[results[2].name] = Downloaded(results[2].location)

\* The number of non-zero pixels in the window behind the quad url q, and
\* the sum of these over the rows of quads that have the given date.
NonZeroAt(q) ==
    LET w == rasters[<<"download", q>>]
    IN  SumSeq([k \in 1..Len(w) |-> IF w[k] = 0 THEN 0 ELSE 1])

BuildingSum(date) ==
    SumSeq([k \in 1..Len(quads) |->
               IF quads[k].date = date THEN NonZeroAt(quads[k].buildings_quad) ELSE 0])

RoadSum(date) ==
    SumSeq([k \in 1..Len(quads) |->
               IF quads[k].date = date THEN NonZeroAt(quads[k].roads_quad) ELSE 0])

\* C28: after the pixel-count loop, for every time in times, building_px
\* is the sum of the non-zero pixel counts of the building windows of exactly
\* the quad rows of that date, road_px likewise for the road windows, and
\* total_px = building_px + road_px; no count of one date leaks into another.
Thm_C28_PixelCountsPerTime ==
    px_pc = "done" =>
        /\ DOMAIN pixel_counts = {quads[k].date : k \in 1..Len(quads)}
        /\ \A time \in DOMAIN pixel_counts :
              /\ pixel_counts[time].building_px = BuildingSum(time)
              /\ pixel_counts[time].road_px = RoadSum(time)
              /\ pixel_counts[time].total_px
                     = pixel_counts[time].building_px + pixel_counts[time].road_px

Wit_C28_PixelCountsPerTime ==
    /\ px_pc = "done"
    /\ Len(quads) = 2
    /\ quads[1].date # quads[2].date
    /\ pixel_counts[quads[1].date].building_px = 2
    /\ pixel_counts[quads[2].date].building_px = 3
    /\ pixel_counts[quads[2].date].total_px = 3

\* C30: get_download_url gives the Location header of the response only
\* when the status is 302; for any other status it fails with an assertion
\* error and gives no url, so the pixel-count loop opens no raster from a
\* response that is not a 302: every url opened is the Location of a 302
\* response, and a failed assertion ends the cell before a raster of that row
\* is opened.
Thm_C30_Only302Opens ==
    px_pc \notin {"idle", "cell"} =>
        /\ \A k \in 1..Len(opened) :
              \E q \in DOMAIN responses :
                  /\ responses[q].status_code = 302
                  /\ opened[k] = responses[q].headers.Location
                  /\ q \in Range(quad_requests)
        /\ \A k \in 1..Len(quad_requests) :
              responses[quad_requests[k]].status_code # 302 =>
                  /\ k = Len(quad_requests)
                  /\ px_pc = "AssertionError"
        /\ px_pc = "AssertionError" =>
              /\ responses[quad_requests[Len(quad_requests)]].status_code # 302
              /\ Len(opened) = 2 * ((Len(quad_requests) - 1) \div 2)
        /\ px_pc # "AssertionError" => Len(opened) = Len(quad_requests)

Wit_C30_Only302Opens ==
    /\ px_pc = "AssertionError"
    /\ Len(quad_requests) = 4
    /\ Len(opened) = 2
    /\ responses[quad_requests[4]].status_code = 301
====
